---- MODULE Spec2Model ----
(***************************************************************************)
(* Smart-LMS: the role guard (MainLayout), the login page and session      *)
(* store, the student submission upsert (StudentAssignments.handleSubmit), *)
(* the teacher attendance batch save (AttendanceManagement), the student   *)
(* attendance rate, the view loads and the admin create actions.           *)
(*                                                                         *)
(* One specification per subsystem shares the module; each leaves the      *)
(* variables of the other subsystems unchanged:                            *)
(*   SpecGuard       MainLayout as a pure function of its inputs           *)
(*   SpecSession     session store + Login + Index + guard + navigation    *)
(*   SpecSubmit      student submission views over the submissions table   *)
(*   SpecAttendance  teacher attendance view over the attendance table     *)
(*   SpecPercent     StudentAttendance statistics and attendance rate      *)
(*   SpecFanOut      TeacherClasses.fetchClasses, a Promise.all view load  *)
(*   SpecPageLoad    TeacherAssignments / TeacherDashboard view loads      *)
(*   SpecCreate      CourseManagement / Users create actions               *)
(*   SpecUsers       auth accounts and profiles under the create handlers  *)
(*   SpecAssign      TeacherAssignments create form and insert             *)
(*   SpecDash        TeacherDashboard count queries                        *)
(*   SpecPageGuard   the fetch effects of the guarded pages                *)
(*   SpecTabs        StudentAssignments search filter and status tabs      *)
(***************************************************************************)
EXTENDS Integers, Sequences, FiniteSets, TLC

VARIABLES
  \* ---- SpecGuard: one evaluation of MainLayout
  gLoading,        \* useAuth().loading seen by the guard
  gUser,           \* useAuth().user seen by the guard
  gRequired,       \* the requiredRole prop
  gOut,            \* what the last evaluation returned (NoOut before it)
  \* ---- SpecSession
  loading,         \* session store: initial restoration in progress
  user,            \* session store: identity or NoUser
  session,         \* backend session persisted in the browser
  route,           \* the route whose view is mounted (redirects followed)
  hops,            \* the redirects the last step followed, in order
  loginIsLoading,  \* Login: isLoading
  loginError,      \* Login: error (inline message) or NoError
  signInCalls,     \* signIn calls awaiting the backend
  signedOut,       \* history: signOut completed, no successful signIn since
  event,           \* history: the handler outcome that produced this state
  \* ---- SpecSubmit
  subRows,         \* table assignment_submissions: row id -> row
  subViews,        \* StudentAssignments instances (browser sessions)
  subLast,         \* history: the last write the backend applied
  \* ---- SpecAttendance
  attRows,         \* table attendance_records: row id -> row
  classes,         \* AttendanceManagement: classes (loaded or not)
  selectedClassId, \* "" is 0
  selectedDate,
  students,        \* roster rows with attendanceStatus, attendanceRecordId
  isLoading,
  isSaving,
  fetches,         \* fetchClasses / fetchStudents runs in flight
  save,            \* the saveAttendance run: captured values and position
  attToast,        \* the last notification shown
  attDone,         \* user actions so far
  \* ---- SpecPercent
  monthRecords,    \* the student's records of the month, counted by status
  stats,           \* StudentAttendance: stats
  percentage,      \* the attendance rate the view shows
  statsToast,      \* the notification of the last fetchAttendance
  \* ---- SpecFanOut
  tcTeaches,       \* table class_teachers: the class ids of the teacher
  classesWithDetails, \* TeacherClasses: the view model
  tcIsLoading,     \* TeacherClasses: isLoading
  tcToasts,        \* error notifications raised by the current load
  tcLoad,          \* the fetchClasses run: position, mappers, history
  tcLoads,         \* loads started so far
  \* ---- SpecPageLoad
  pgPage,          \* the mounted page
  pgView,          \* its visible state: part -> the load that set it
  pgIsLoading,
  pgToasts,        \* error notifications raised by the current load
  pgRun,           \* the load: awaited query, number, history
  pgLoads,         \* loads started so far
  \* ---- SpecCreate
  cmPage,          \* the mounted admin page
  cmTables,        \* tables courses and profiles: page -> rows
  cmList,          \* the page's list (courses / users)
  cmFetching,      \* fetchCourses / fetchUsers in flight
  cmForm,          \* newCourse / newUser
  cmIsSubmitting,  \* CourseManagement: isSubmitting
  cmToast,         \* the last notification shown
  cmRun,           \* the create action: awaited call, captured values
  cmOut,           \* history of the last create action
  cmActs,          \* clicks, mounts and outside inserts so far
  accounts,        \* auth accounts: id -> the role it was created for
  profiles,        \* table profiles: id -> role
  usRuns,          \* the create actions started: awaited call, captured values
  usFirst,         \* history: id -> the role first stored for it
  usDeleted,       \* history: the ids whose profile was deleted
  usSettings,      \* table settings: the version of its one row
  usSession,       \* the identity operating the browser
  usToast,         \* the last notification shown
  usActs,          \* user actions so far
  taUser,          \* TeacherAssignments: useAuth().user
  taCourses,       \* TeacherAssignments: courses (ids)
  taClasses,       \* TeacherAssignments: classes (ids)
  formData,        \* TeacherAssignments: formData
  taSent,          \* history: the rows sent for insertion, in order
  taPending,       \* the inserts awaiting the backend
  taAssignments,   \* TeacherAssignments: assignments
  taToast,         \* the last notification shown
  dbClassTeachers, \* table class_teachers
  dbAssignments,   \* table assignments
  dashUser,        \* TeacherDashboard: useAuth().user
  dashStats,       \* TeacherDashboard: stats
  dashIsLoading,   \* TeacherDashboard: isLoading
  dashRun,         \* the fetchDashboardData run: awaited query, counts so far
  pqSession,       \* the session persisted in the browser
  pqLoading,       \* useAuth().loading
  pqUser,          \* useAuth().user
  pqPage,          \* the guarded page last entered
  pqMounted,       \* it is still mounted
  pqOut,           \* what its guard returned last
  pqIssued,        \* history: the effect runs that issued queries
  pqVisits,        \* page mounts so far
  saAssignments,   \* StudentAssignments: assignments
  searchTerm,      \* StudentAssignments: searchTerm
  saTabs           \* the filtered list and the tab lists last rendered

guardVars   == <<gLoading, gUser, gRequired, gOut>>
sessionVars == <<loading, user, session, route, hops, loginIsLoading,
                 loginError, signInCalls, signedOut, event>>
submitVars  == <<subRows, subViews, subLast>>
attVars     == <<attRows, classes, selectedClassId, selectedDate, students,
                 isLoading, isSaving, fetches, save, attToast, attDone>>
pctVars     == <<monthRecords, stats, percentage, statsToast>>
fanVars     == <<tcTeaches, classesWithDetails, tcIsLoading, tcToasts,
                 tcLoad, tcLoads>>
\* the first four subsystems, and those added after them
coreVars    == <<guardVars, sessionVars, submitVars, attVars>>
pageVars    == <<pgPage, pgView, pgIsLoading, pgToasts, pgRun, pgLoads>>
createVars  == <<cmPage, cmTables, cmList, cmFetching, cmForm,
                 cmIsSubmitting, cmToast, cmRun, cmOut, cmActs>>
\* the subsystems added last
usersVars   == <<accounts, profiles, usRuns, usFirst, usDeleted, usSettings,
                 usSession, usToast, usActs>>
assignVars  == <<taUser, taCourses, taClasses, formData, taSent, taPending,
                 taAssignments, taToast>>
dashVars    == <<dbClassTeachers, dbAssignments, dashUser, dashStats,
                 dashIsLoading, dashRun>>
pqVars      == <<pqSession, pqLoading, pqUser, pqPage, pqMounted, pqOut,
                 pqIssued, pqVisits>>
tabsVars    == <<saAssignments, searchTerm, saTabs>>
lateVars    == <<usersVars, assignVars, dashVars, pqVars, tabsVars>>
moreVars    == <<pctVars, fanVars, pageVars, createVars, lateVars>>
vars        == <<guardVars, sessionVars, submitVars, attVars, moreVars>>
\* all subsystems but one
exceptPct    == <<coreVars, fanVars, pageVars, createVars, lateVars>>
exceptFan    == <<coreVars, pctVars, pageVars, createVars, lateVars>>
exceptPage   == <<coreVars, pctVars, fanVars, createVars, lateVars>>
exceptCreate == <<coreVars, pctVars, fanVars, pageVars, lateVars>>
midVars      == <<pctVars, fanVars, pageVars, createVars>>
exceptUsers  == <<coreVars, midVars, assignVars, dashVars, pqVars, tabsVars>>
exceptAssign == <<coreVars, midVars, usersVars, dashVars, pqVars, tabsVars>>
exceptDash   == <<coreVars, midVars, usersVars, assignVars, pqVars, tabsVars>>
exceptPq     == <<coreVars, midVars, usersVars, assignVars, dashVars, tabsVars>>
exceptTabs   == <<coreVars, midVars, usersVars, assignVars, dashVars, pqVars>>

(***************************************************************************)
(* Identities and routes                                                   *)
(***************************************************************************)
Roles == {"admin", "teacher", "student"}

\* user ids per role in the model
NumIds == 2

Identities == [id : 1..NumIds, role : Roles]

NoUser == [id |-> 0, role |-> "none"]

Unset == "unset"

NoOut == [kind |-> "none", to |-> ""]

Placeholder == [kind |-> "placeholder", to |-> ""]

RenderChildren == [kind |-> "render", to |-> ""]

Redirect(target) == [kind |-> "redirect", to |-> target]

(***************************************************************************)
(* MainLayout: the role guard                                              *)
(***************************************************************************)
\* faulty variant: the !user check is missing
MainLayout_NoUserCheck(l, u, requiredRole) ==
  IF l THEN Placeholder
  ELSE IF requiredRole # Unset /\ u.role # requiredRole /\ u.role \in Roles
       THEN Redirect("/" \o u.role)
       ELSE RenderChildren

\* faulty variant: the loading branch is missing
MainLayout_NoLoadingCheck(l, u, requiredRole) ==
  IF u = NoUser THEN Redirect("/login")
  ELSE IF requiredRole # Unset /\ u.role # requiredRole /\ u.role \in Roles
       THEN Redirect("/" \o u.role)
       ELSE RenderChildren

\* faulty variant: a teacher on a foreign view is sent to the student home
MainLayout_WrongHome(l, u, requiredRole) ==
  IF l THEN Placeholder
  ELSE IF u = NoUser THEN Redirect("/login")
  ELSE IF requiredRole # Unset /\ u.role # requiredRole
       THEN CASE u.role = "admin"   -> Redirect("/admin")
              [] u.role = "teacher" -> Redirect("/student")
              [] u.role = "student" -> Redirect("/student")
              [] OTHER              -> RenderChildren
       ELSE RenderChildren

\* faulty variant: a set requiredRole redirects even when the role matches
MainLayout_AlwaysRedirect(l, u, requiredRole) ==
  IF l THEN Placeholder
  ELSE IF u = NoUser THEN Redirect("/login")
  ELSE IF requiredRole # Unset
       THEN CASE u.role = "admin"   -> Redirect("/admin")
              [] u.role = "teacher" -> Redirect("/teacher")
              [] u.role = "student" -> Redirect("/student")
              [] OTHER              -> RenderChildren
       ELSE RenderChildren

MainLayout(l, u, requiredRole) ==
  IF l THEN Placeholder
  ELSE IF u = NoUser THEN Redirect("/login")
  ELSE IF requiredRole # Unset /\ u.role # requiredRole
       THEN CASE u.role = "admin"   -> Redirect("/admin")
              [] u.role = "teacher" -> Redirect("/teacher")
              [] u.role = "student" -> Redirect("/student")
              [] OTHER              -> RenderChildren
       ELSE RenderChildren

(***************************************************************************)
(* SpecGuard: the guard applied to every input                             *)
(***************************************************************************)
GuardInit ==
  /\ gLoading \in BOOLEAN
  /\ gUser \in Identities \cup {NoUser}
  /\ gRequired \in Roles \cup {Unset}
  /\ gOut = NoOut

\* the component renders with its current props and session state
GuardEval ==
  /\ gOut = NoOut
  /\ gOut' = MainLayout(gLoading, gUser, gRequired)
  /\ UNCHANGED <<gLoading, gUser, gRequired>>

\* the session state or the prop changes: the next render is a new evaluation
GuardInputs ==
  /\ gOut # NoOut
  /\ gLoading' \in BOOLEAN
  /\ gUser' \in Identities \cup {NoUser}
  /\ gRequired' \in Roles \cup {Unset}
  /\ gOut' = NoOut

(***************************************************************************)
(* Routes and the views mounted on them (App.tsx)                          *)
(***************************************************************************)
Routes == {"/", "/login", "/admin", "/admin/users", "/teacher",
           "/teacher/attendance", "/student", "/student/assignments",
           "/missing"}

\* the requiredRole each page passes to MainLayout
RequiredRole(r) ==
  CASE r \in {"/admin", "/admin/users"}            -> "admin"
    [] r \in {"/teacher", "/teacher/attendance"}   -> "teacher"
    [] r \in {"/student", "/student/assignments"}  -> "student"
    [] OTHER                                       -> Unset

Guarded(r) == RequiredRole(r) # Unset

LoginForm == [kind |-> "form", to |-> ""]

NotFound == [kind |-> "notfound", to |-> ""]

\* faulty variant: Index sends a teacher to the student home
Index_WrongHome(l, u) ==
  IF l THEN Placeholder
  ELSE IF u = NoUser THEN Redirect("/login")
  ELSE CASE u.role = "admin"   -> Redirect("/admin")
         [] u.role = "teacher" -> Redirect("/student")
         [] u.role = "student" -> Redirect("/student")
         [] OTHER              -> Placeholder

\* Index: spinner, with an effect that navigates once loading is over
Index(l, u) ==
  IF l THEN Placeholder
  ELSE IF u = NoUser THEN Redirect("/login")
  ELSE CASE u.role = "admin"   -> Redirect("/admin")
         [] u.role = "teacher" -> Redirect("/teacher")
         [] u.role = "student" -> Redirect("/student")
         [] OTHER              -> Placeholder

\* Login: redirect when an identity is present, else the form
Login(u) ==
  IF u # NoUser
  THEN CASE u.role = "admin"   -> Redirect("/admin")
         [] u.role = "teacher" -> Redirect("/teacher")
         [] u.role = "student" -> Redirect("/student")
         [] OTHER              -> LoginForm
  ELSE LoginForm

\* what the element mounted on route r returns
View(r, l, u) ==
  CASE r = "/"      -> Index(l, u)
    [] r = "/login" -> Login(u)
    [] Guarded(r)   -> MainLayout(l, u, RequiredRole(r))
    [] OTHER        -> NotFound

\* redirects followed before the walk is cut off
MaxRedirects == 4

RECURSIVE Follow(_, _, _, _)
\* the redirects taken from route r, in order
Follow(r, l, u, n) ==
  LET o == View(r, l, u)
  IN  IF o.kind = "redirect" /\ n > 0
      THEN <<[from |-> r, to |-> o.to]>> \o Follow(o.to, l, u, n - 1)
      ELSE <<>>

Landing(r, hs) == IF hs = <<>> THEN r ELSE hs[Len(hs)].to

(***************************************************************************)
(* SpecSession: session store, Login.handleLogin, Navbar sign-out          *)
(***************************************************************************)
NoError == "none"

BadCredentials == [id |-> 0, role |-> "bad"]

\* signIn calls in flight at once
MaxCalls == 2

\* ids that sign in during a session run
SessionIdentities == {i \in Identities : i.id = 1}

SessionInit ==
  /\ loading = TRUE
  /\ user = NoUser
  /\ session \in SessionIdentities \cup {NoUser}
  /\ route \in Routes
  /\ hops = <<>>
  /\ loginIsLoading = FALSE
  /\ loginError = NoError
  /\ signInCalls = {}
  /\ signedOut = FALSE
  /\ event = "load"

\* re-render after a state change: redirects are followed, and a Login that
\* is left unmounts (its state is gone, its pending calls keep running)
Rerender(r, isl, err, calls) ==
  LET hs == Follow(r, loading', user', MaxRedirects)
      to == Landing(r, hs)
      left == route = "/login" /\ to # "/login"
  IN  /\ hops' = hs
      /\ route' = to
      /\ loginIsLoading' = (IF left THEN FALSE ELSE isl)
      /\ loginError' = (IF left THEN NoError ELSE err)
      /\ signInCalls' =
           (IF left
            THEN {[cred |-> c.cred, mounted |-> FALSE] : c \in calls}
            ELSE calls)

\* the store finishes restoring the persisted session
RestoreSession ==
  /\ loading
  /\ loading' = FALSE
  /\ user' = session
  /\ UNCHANGED <<session, signedOut>>
  /\ event' = "restore"
  /\ Rerender(route, loginIsLoading, loginError, signInCalls)

\* in-app navigation (history, links) to route r
GoTo(r) ==
  /\ r # route
  /\ UNCHANGED <<loading, user, session, signedOut>>
  /\ event' = "goto"
  /\ Rerender(r, loginIsLoading, loginError, signInCalls)

\* full page load at URL r: the application starts again
Reload(r) ==
  /\ loading' = TRUE
  /\ user' = NoUser
  /\ route' = r
  /\ hops' = <<>>
  /\ loginIsLoading' = FALSE
  /\ loginError' = NoError
  /\ signInCalls' = {}
  /\ event' = "load"
  /\ UNCHANGED <<session, signedOut>>

\* Login.handleLogin up to the await
HandleLogin(cred) ==
  /\ route = "/login"
  /\ Login(user) = LoginForm
  /\ ~loginIsLoading
  /\ Cardinality(signInCalls) < MaxCalls
  /\ loginIsLoading' = TRUE
  /\ loginError' = NoError
  /\ signInCalls' = signInCalls \cup {[cred |-> cred, mounted |-> TRUE]}
  /\ event' = "submit"
  /\ UNCHANGED <<loading, user, session, route, hops, signedOut>>

\* signIn resolves: the store holds the identity; finally-block of handleLogin
SignInOk(c) ==
  /\ c \in signInCalls
  /\ c.cred \in Identities
  /\ user' = c.cred
  /\ session' = c.cred
  /\ signedOut' = FALSE
  /\ event' = "signInOk"
  /\ UNCHANGED loading
  /\ Rerender(route,
              IF c.mounted THEN FALSE ELSE loginIsLoading,
              loginError,
              signInCalls \ {c})

\* faulty variant: the catch block does not set the error
SignInFail_NoError(c) ==
  /\ c \in signInCalls
  /\ loginIsLoading' = (IF c.mounted THEN FALSE ELSE loginIsLoading)
  /\ signInCalls' = signInCalls \ {c}
  /\ event' = "signInFail"
  /\ UNCHANGED <<loading, user, session, route, hops, signedOut, loginError>>

\* signIn rejects: catch and finally of handleLogin
SignInFail(c) ==
  /\ c \in signInCalls
  /\ loginError' = (IF c.mounted THEN "Failed to sign in" ELSE loginError)
  /\ loginIsLoading' = (IF c.mounted THEN FALSE ELSE loginIsLoading)
  /\ signInCalls' = signInCalls \ {c}
  /\ event' = "signInFail"
  /\ UNCHANGED <<loading, user, session, route, hops, signedOut>>

\* Navbar: the sign-out button, shown inside a rendered guard
SignOut ==
  /\ Guarded(route)
  /\ MainLayout(loading, user, RequiredRole(route)) = RenderChildren
  /\ user # NoUser
  /\ user' = NoUser
  /\ session' = NoUser
  /\ signedOut' = TRUE
  /\ event' = "signOut"
  /\ UNCHANGED loading
  /\ Rerender(route, loginIsLoading, loginError, signInCalls)

(***************************************************************************)
(* SpecSubmit: StudentAssignments over the assignment_submissions table    *)
(***************************************************************************)
\* assignments of the student's classes
NumAssignments == 1

\* browser sessions of the student with the page open
NumTabs == 2

\* rows the submissions table holds at most
MaxRows == 3

Assignments == 1..NumAssignments

Tabs == 1..NumTabs

\* the signed-in student (user.id) of every session of the model
StudentId == 1

NoSub == [id |-> 0, status |-> "none"]

NoReq == [kind |-> "none", a |-> 0, id |-> 0]

NoSel == [a |-> 0, submission |-> NoSub]

NoWrite == [kind |-> "none", id |-> 0, before |-> "none", after |-> "none"]

\* rows of the table for (assignment, student)
RowsOf(rows, a, st) ==
  {id \in DOMAIN rows : rows[id].assignment_id = a /\ rows[id].student_id = st}

FreshView ==
  [phase |-> "unmounted", assignments |-> <<>>, fetched |-> <<>>,
   selectedAssignment |-> NoSel, isSubmissionDialogOpen |-> FALSE,
   isSubmitting |-> FALSE, req |-> NoReq]

SubmitInit ==
  /\ subRows = <<>>
  /\ subViews = [t \in Tabs |-> FreshView]
  /\ subLast = NoWrite

\* the page mounts: state as constructed, fetchAssignments starts
Mount(t) ==
  /\ subViews[t].phase # "loading"
  /\ subViews[t].req = NoReq
  /\ subViews' = [subViews EXCEPT ![t] =
       [FreshView EXCEPT !.phase = "loading",
                         !.fetched = [a \in {} |-> NoSub]]]
  /\ UNCHANGED <<subRows, subLast>>

\* one per-assignment submission query (maybeSingle) of the fan-out returns
FetchRow(t, a) ==
  /\ subViews[t].phase = "loading"
  /\ a \in Assignments \ DOMAIN subViews[t].fetched
  /\ LET ids == RowsOf(subRows, a, StudentId)
     IN  /\ Cardinality(ids) <= 1
         /\ subViews' = [subViews EXCEPT ![t].fetched =
              [x \in DOMAIN @ \cup {a} |->
                 IF x # a THEN @[x]
                 ELSE IF ids = {} THEN NoSub
                 ELSE LET id == CHOOSE i \in ids : TRUE
                      IN  [id |-> id, status |-> subRows[id].status]]]
  /\ UNCHANGED <<subRows, subLast>>

\* all queries returned: setAssignments, finally setIsLoading(false)
FetchDone(t) ==
  /\ subViews[t].phase = "loading"
  /\ DOMAIN subViews[t].fetched = Assignments
  /\ subViews' = [subViews EXCEPT ![t].phase = "ready",
                                  ![t].assignments = subViews[t].fetched,
                                  ![t].fetched = <<>>]
  /\ UNCHANGED <<subRows, subLast>>

\* a query of the load fails (maybeSingle on several rows, or the network):
\* catch shows the toast, nothing is set, finally setIsLoading(false)
FetchFail(t) ==
  /\ subViews[t].phase = "loading"
  /\ subViews' = [subViews EXCEPT ![t].phase = "ready",
                                  ![t].fetched = <<>>]
  /\ UNCHANGED <<subRows, subLast>>

\* the Submit / Edit Submission button of a table row
openSubmissionDialog(t, a) ==
  /\ subViews[t].phase = "ready"
  /\ ~subViews[t].isSubmissionDialogOpen
  /\ a \in DOMAIN subViews[t].assignments
  /\ subViews[t].assignments[a].status # "graded"
  /\ subViews' = [subViews EXCEPT
       ![t].selectedAssignment =
          [a |-> a, submission |-> subViews[t].assignments[a]],
       ![t].isSubmissionDialogOpen = TRUE]
  /\ UNCHANGED <<subRows, subLast>>

\* Cancel, or the dialog's onOpenChange(false)
CloseDialog(t) ==
  /\ subViews[t].isSubmissionDialogOpen
  /\ subViews' = [subViews EXCEPT ![t].isSubmissionDialogOpen = FALSE]
  /\ UNCHANGED <<subRows, subLast>>

\* faulty variant: handleSubmit always inserts
handleSubmit_AlwaysInsert(t) ==
  /\ subViews[t].isSubmissionDialogOpen
  /\ ~subViews[t].isSubmitting
  /\ subViews[t].selectedAssignment # NoSel
  /\ subViews' = [subViews EXCEPT
       ![t].isSubmitting = TRUE,
       ![t].req = [kind |-> "insert",
                   a |-> subViews[t].selectedAssignment.a, id |-> 0]]
  /\ UNCHANGED <<subRows, subLast>>

\* handleSubmit up to the await: update by id when the selected assignment
\* carries a submission, insert otherwise
handleSubmit(t) ==
  /\ subViews[t].isSubmissionDialogOpen
  /\ ~subViews[t].isSubmitting
  /\ subViews[t].selectedAssignment # NoSel
  /\ LET sel == subViews[t].selectedAssignment
     IN  subViews' = [subViews EXCEPT
           ![t].isSubmitting = TRUE,
           ![t].req = IF sel.submission # NoSub
                      THEN [kind |-> "update", a |-> sel.a,
                            id |-> sel.submission.id]
                      ELSE [kind |-> "insert", a |-> sel.a, id |-> 0]]
  /\ UNCHANGED <<subRows, subLast>>

\* the rest of handleSubmit once the write returned row `data`
SubmitDone(t, data) ==
  [subViews EXCEPT
     ![t].assignments =
        [x \in DOMAIN @ |->
           IF x = subViews[t].selectedAssignment.a THEN data ELSE @[x]],
     ![t].isSubmissionDialogOpen = FALSE,
     ![t].isSubmitting = FALSE,
     ![t].req = NoReq]

\* the update is applied by the backend and returns the row
UpdateOk(t) ==
  /\ subViews[t].req.kind = "update"
  /\ LET id == subViews[t].req.id
     IN  /\ id \in DOMAIN subRows
         /\ subRows' = [subRows EXCEPT ![id].status = "submitted"]
         /\ subLast' = [kind |-> "update", id |-> id,
                        before |-> subRows[id].status, after |-> "submitted"]
         /\ subViews' = SubmitDone(t, [id |-> id, status |-> "submitted"])

\* the insert is applied by the backend and returns the new row
InsertOk(t) ==
  /\ subViews[t].req.kind = "insert"
  /\ Len(subRows) < MaxRows
  /\ LET id == Len(subRows) + 1
     IN  /\ subRows' = Append(subRows,
                [assignment_id |-> subViews[t].req.a,
                 student_id |-> StudentId, status |-> "submitted"])
         /\ subLast' = [kind |-> "insert", id |-> id,
                        before |-> "none", after |-> "submitted"]
         /\ subViews' = SubmitDone(t, [id |-> id, status |-> "submitted"])

\* the write fails: catch shows the toast, finally setIsSubmitting(false)
SubmitFail(t) ==
  /\ subViews[t].req # NoReq
  /\ subViews' = [subViews EXCEPT ![t].isSubmitting = FALSE,
                                  ![t].req = NoReq]
  /\ UNCHANGED <<subRows, subLast>>

\* grading, performed outside this application
ExternalGrade(id) ==
  /\ id \in DOMAIN subRows
  /\ subRows[id].status = "submitted"
  /\ subRows' = [subRows EXCEPT ![id].status = "graded"]
  /\ subLast' = [kind |-> "grade", id |-> id,
                 before |-> "submitted", after |-> "graded"]
  /\ UNCHANGED subViews

\* a pending row created outside this application for a pair without a row
ExternalPending(a) ==
  /\ RowsOf(subRows, a, StudentId) = {}
  /\ Len(subRows) < MaxRows
  /\ subRows' = Append(subRows, [assignment_id |-> a,
                                 student_id |-> StudentId,
                                 status |-> "pending"])
  /\ subLast' = [kind |-> "pending", id |-> Len(subRows) + 1,
                 before |-> "none", after |-> "pending"]
  /\ UNCHANGED subViews

(***************************************************************************)
(* SpecAttendance: AttendanceManagement over the attendance_records table  *)
(***************************************************************************)
\* rows the attendance table holds at most
MaxAttRows == 2

\* fetch runs in flight at once
MaxFetches == 2

\* user actions (mount, select, click, save) in one run of the model
MaxActions == 3

\* class_teachers: the classes of the signed-in teacher
ClassIds == {1, 2}

\* the dates the teacher picks from
Dates == {1, 2}

AttendanceStatus == {"present", "absent", "late"}

\* the radio buttons the teacher clicks in the model
ClickedStatus == {"present", "absent"}

\* class_students: the student ids enrolled in class c
Roster(c) == IF c = 1 THEN {1, 2} ELSE {1}

\* a set of student ids as the array the users query returns
RECURSIVE AsList(_)
AsList(S) ==
  IF S = {} THEN <<>>
  ELSE LET m == CHOOSE x \in S : \A y \in S : x <= y
       IN  <<m>> \o AsList(S \ {m})

\* stored, failedAt and prevFailedAt are history: the row each returned
\* write was stored in (0: rejected), the first rejected write of the
\* batch, and that of the batch before it on the same class and date
NoSave == [pc |-> "idle", roster |-> <<>>, class |-> 0, date |-> 0,
           i |-> 0, writes |-> <<>>, n |-> 0, calls |-> 0,
           stored |-> <<>>, failedAt |-> 0, prevFailedAt |-> 0]

\* what the table holds when the page is opened: nothing, or the record
\* of an earlier day's save
StoredBefore ==
  {<<>>, <<[student_id |-> 1, class_id |-> 1, date |-> 1,
           status |-> "absent"]>>}

AttInit ==
  /\ attRows \in StoredBefore
  /\ classes = FALSE
  /\ selectedClassId = 0
  /\ selectedDate = 1
  /\ students = <<>>
  /\ isLoading = TRUE
  /\ isSaving = FALSE
  /\ fetches = {[kind |-> "classes", class |-> 0, date |-> 0,
                 data |-> <<>>, read |-> FALSE]}
  /\ save = NoSave
  /\ attToast = "none"
  /\ attDone = 0

\* the page is mounted again (navigation away and back) between two saves:
\* state as constructed, fetchClasses starts; what the previous instance
\* still awaited is dropped
AttMount ==
  /\ attDone < MaxActions
  /\ attDone' = attDone + 1
  /\ save.pc \in {"idle", "done"}
  /\ classes' = FALSE
  /\ selectedClassId' = 0
  /\ selectedDate' = 1
  /\ students' = <<>>
  /\ isLoading' = TRUE
  /\ isSaving' = FALSE
  /\ fetches' = {[kind |-> "classes", class |-> 0, date |-> 0,
                  data |-> <<>>, read |-> FALSE]}
  /\ save' = [NoSave EXCEPT !.class = save.class, !.date = save.date,
                            !.failedAt = save.failedAt]
  /\ attToast' = "none"
  /\ UNCHANGED attRows

\* the effects that run after selectedClassId / selectedDate changed
StartedBy(c, d, classChanged) ==
  (IF classChanged
   THEN {[kind |-> "classes", class |-> c, date |-> 0,
          data |-> <<>>, read |-> FALSE]}
   ELSE {})
  \cup
  (IF c # 0
   THEN {[kind |-> "students", class |-> c, date |-> d,
          data |-> <<>>, read |-> FALSE]}
   ELSE {})

\* fetchClasses returns: setClasses, first class selected when the run was
\* started with none selected, finally setIsLoading(false); a changed
\* selection starts both effects again
FetchClassesDone(f) ==
  /\ f \in fetches
  /\ f.kind = "classes"
  /\ classes' = TRUE
  /\ LET sel == IF f.class = 0 THEN 1 ELSE selectedClassId
         started == IF sel # selectedClassId
                    THEN StartedBy(sel, selectedDate, TRUE) ELSE {}
     IN  /\ selectedClassId' = sel
         /\ fetches' = (fetches \ {f}) \cup started
         /\ isLoading' = (started # {})
  /\ UNCHANGED <<attRows, selectedDate, students, isSaving, save, attToast, attDone>>

\* the attendance_records query of a fetchStudents run is answered
FetchStudentsRead(f) ==
  /\ f \in fetches
  /\ f.kind = "students"
  /\ ~f.read
  /\ LET found(st) ==
           {id \in DOMAIN attRows :
              /\ attRows[id].student_id = st
              /\ attRows[id].class_id = f.class
              /\ attRows[id].date = f.date}
         first(st) == CHOOSE id \in found(st) : \A j \in found(st) : id <= j
         row(st) ==
           IF found(st) = {}
           THEN [id |-> st, attendanceStatus |-> "present",
                 attendanceRecordId |-> 0]
           ELSE [id |-> st, attendanceStatus |-> attRows[first(st)].status,
                 attendanceRecordId |-> first(st)]
         ids == AsList(Roster(f.class))
     IN  fetches' = (fetches \ {f}) \cup
           {[f EXCEPT !.read = TRUE,
                      !.data = [k \in 1..Len(ids) |-> row(ids[k])]]}
  /\ UNCHANGED <<attRows, classes, selectedClassId, selectedDate, students,
                 isLoading, isSaving, save, attToast, attDone>>

\* fetchStudents returns: setStudents, finally setIsLoading(false)
FetchStudentsDone(f) ==
  /\ f \in fetches
  /\ f.kind = "students"
  /\ f.read
  /\ students' = f.data
  /\ isLoading' = FALSE
  /\ fetches' = fetches \ {f}
  /\ UNCHANGED <<attRows, classes, selectedClassId, selectedDate, isSaving,
                 save, attToast, attDone>>

\* a query of a fetch run fails: toast, finally setIsLoading(false)
FetchFailed(f) ==
  /\ f \in fetches
  /\ isLoading' = FALSE
  /\ fetches' = fetches \ {f}
  /\ attToast' = "fetchError"
  /\ UNCHANGED <<attRows, classes, selectedClassId, selectedDate, students,
                 isSaving, save, attDone>>

\* the class Select: onValueChange = setSelectedClassId
SelectClass(c) ==
  /\ attDone < MaxActions
  /\ attDone' = attDone + 1
  /\ classes
  /\ c # selectedClassId
  /\ Cardinality(fetches) + 2 <= MaxFetches
  /\ selectedClassId' = c
  /\ fetches' = fetches \cup StartedBy(c, selectedDate, TRUE)
  /\ isLoading' = TRUE
  /\ UNCHANGED <<attRows, classes, selectedDate, students, isSaving, save,
                 attToast>>

\* the Calendar: onSelect = setSelectedDate
SelectDate(d) ==
  /\ attDone < MaxActions
  /\ attDone' = attDone + 1
  /\ d # selectedDate
  /\ Cardinality(fetches) + 1 <= MaxFetches
  /\ selectedDate' = d
  /\ fetches' = fetches \cup StartedBy(selectedClassId, d, FALSE)
  /\ isLoading' = (isLoading \/ selectedClassId # 0)
  /\ UNCHANGED <<attRows, classes, selectedClassId, students, isSaving, save,
                 attToast>>

\* a radio button of the roster table
updateAttendance(k, status) ==
  /\ attDone < MaxActions
  /\ attDone' = attDone + 1
  /\ ~isLoading
  /\ k \in DOMAIN students
  /\ students[k].attendanceStatus # status
  /\ students' = [students EXCEPT ![k].attendanceStatus = status]
  /\ UNCHANGED <<attRows, classes, selectedClassId, selectedDate, isLoading,
                 isSaving, fetches, save, attToast>>

\* saveAttendance up to the loop: the values the closure holds
SaveStart ==
  /\ attDone < MaxActions
  /\ attDone' = attDone + 1
  /\ ~isSaving
  /\ students # <<>>
  /\ selectedClassId # 0
  /\ isSaving' = TRUE
  /\ save' = [pc |-> "issue", roster |-> students, class |-> selectedClassId,
              date |-> selectedDate, i |-> 1, writes |-> <<>>,
              n |-> Len(students), calls |-> 0,
              stored |-> <<>>, failedAt |-> 0,
              prevFailedAt |-> IF save.class = selectedClassId
                                    /\ save.date = selectedDate
                               THEN save.failedAt ELSE 0]
  /\ UNCHANGED <<attRows, classes, selectedClassId, selectedDate, students,
                 isLoading, fetches, attToast>>

\* the write the loop issues for one roster row
WriteFor(student) ==
  IF student.attendanceRecordId # 0
  THEN [kind |-> "update", student |-> student.id,
        id |-> student.attendanceRecordId]
  ELSE [kind |-> "insert", student |-> student.id, id |-> 0]

\* faulty variant: the loop sends every remaining write without awaiting
SaveIssue_AllAtOnce ==
  /\ save.pc = "issue"
  /\ save.i <= Len(save.roster)
  /\ save' = [save EXCEPT
                !.pc = "await",
                !.writes = @ \o [k \in 1..(Len(save.roster) - save.i + 1) |->
                                   WriteFor(save.roster[save.i + k - 1])],
                !.calls = Len(save.roster)]
  /\ UNCHANGED <<attRows, classes, selectedClassId, selectedDate, students,
                 isLoading, isSaving, fetches, attToast, attDone>>

\* loop body: the update or insert for student i is sent and awaited
SaveIssue ==
  /\ save.pc = "issue"
  /\ save.i <= Len(save.roster)
  /\ save' = [save EXCEPT !.pc = "await",
                          !.writes = Append(@, WriteFor(save.roster[save.i])),
                          !.calls = @ + 1]
  /\ UNCHANGED <<attRows, classes, selectedClassId, selectedDate, students,
                 isLoading, isSaving, fetches, attToast, attDone>>

\* the backend applies the awaited write; the loop goes on
SaveWriteOk ==
  /\ save.pc = "await"
  /\ LET w == save.writes[Len(save.writes)]
         st == save.roster[save.i]
     IN  IF w.kind = "update"
         THEN /\ w.id \in DOMAIN attRows
              /\ attRows' = [attRows EXCEPT
                               ![w.id].status = st.attendanceStatus]
         ELSE /\ Len(attRows) < MaxAttRows
              /\ attRows' = Append(attRows,
                    [student_id |-> st.id, class_id |-> save.class,
                     date |-> save.date, status |-> st.attendanceStatus])
  /\ save' = [save EXCEPT
                !.pc = "issue", !.i = @ + 1,
                !.stored = Append(@,
                   IF save.writes[Len(save.writes)].kind = "update"
                   THEN save.writes[Len(save.writes)].id
                   ELSE Len(attRows) + 1)]
  /\ UNCHANGED <<classes, selectedClassId, selectedDate, students, isLoading,
                 isSaving, fetches, attToast, attDone>>

\* faulty variant: a rejected write takes back the rows the batch inserted
SaveWriteError_Rollback ==
  /\ save.pc = "await"
  /\ attRows' = SubSeq(attRows, 1,
        Len(attRows) - Cardinality({k \in DOMAIN save.stored :
                                     /\ save.stored[k] # 0
                                     /\ save.writes[k].kind = "insert"}))
  /\ save' = [save EXCEPT !.pc = "issue", !.i = @ + 1,
                          !.stored = Append(@, 0),
                          !.failedAt = IF @ = 0 THEN save.i ELSE @]
  /\ UNCHANGED <<classes, selectedClassId, selectedDate, students,
                 isLoading, isSaving, fetches, attToast, attDone>>

\* faulty variant: a rejected write ends the batch
SaveWriteError_Abort ==
  /\ save.pc = "await"
  /\ save' = [NoSave EXCEPT !.pc = "done", !.n = save.n,
                            !.calls = save.calls,
                            !.class = save.class, !.date = save.date,
                            !.failedAt = save.i,
                            !.prevFailedAt = save.prevFailedAt]
  /\ attToast' = "saveError"
  /\ isSaving' = FALSE
  /\ UNCHANGED <<attRows, classes, selectedClassId, selectedDate, students,
                 isLoading, fetches, attDone>>

\* the backend rejects the awaited write: the client returns {error}, which
\* the loop does not read; the loop goes on
SaveWriteError ==
  /\ save.pc = "await"
  /\ save' = [save EXCEPT !.pc = "issue", !.i = @ + 1,
                          !.stored = Append(@, 0),
                          !.failedAt = IF @ = 0 THEN save.i ELSE @]
  /\ UNCHANGED <<attRows, classes, selectedClassId, selectedDate, students,
                 isLoading, isSaving, fetches, attToast, attDone>>

\* after the loop: success toast, finally setIsSaving(false)
SaveFinish ==
  /\ save.pc = "issue"
  /\ save.i > Len(save.roster)
  /\ save' = [NoSave EXCEPT !.pc = "done", !.n = save.n,
                            !.calls = save.calls,
                            !.class = save.class, !.date = save.date,
                            !.failedAt = save.failedAt,
                            !.prevFailedAt = save.prevFailedAt]
  /\ attToast' = "saved"
  /\ isSaving' = FALSE
  /\ UNCHANGED <<attRows, classes, selectedClassId, selectedDate, students,
                 isLoading, fetches, attDone>>

(***************************************************************************)
(* StudentAttendance: the monthly statistics and the attendance rate.      *)
(* JavaScript numbers are IEEE 754 binary64 values; the quotient and the   *)
(* product of getAttendancePercentage are each rounded to 53 significant   *)
(* bits (round to nearest, ties to even).  A positive number is a record   *)
(* [m, exp]: the significand m, an integer of Precision bits, times 2^exp. *)
(***************************************************************************)
\* the most attendance records one month's query returns
MaxRecords == 20

\* significand bits of a binary64 number
Precision == 53

\* A significand is kept as limbs of LimbBits bits, most significant first
LimbBits == 18

Base == 2^LimbBits

\* the integer the limbs spell (small values only)
RECURSIVE ToInt(_)
ToInt(x) ==
  IF x = <<>> THEN 0
  ELSE Base * ToInt(SubSeq(x, 1, Len(x) - 1)) + x[Len(x)]

RECURSIVE BitLen(_)
BitLen(n) == IF n = 0 THEN 0 ELSE 1 + BitLen(n \div 2)

\* the number of significant bits of x (x[1] > 0)
Bits(x) == BitLen(x[1]) + LimbBits * (Len(x) - 1)

\* x shifted right by k < LimbBits bits
ShiftRight(x, k) ==
  [i \in 1..Len(x) |->
     (IF i > 1 THEN (x[i - 1] % 2^k) * 2^(LimbBits - k) ELSE 0)
       + x[i] \div 2^k]

\* x shifted right by any number of bits
ShiftRightBig(x, k) ==
  LET whole == k \div LimbBits
  IN  IF whole >= Len(x) THEN <<>>
      ELSE ShiftRight(SubSeq(x, 1, Len(x) - whole), k % LimbBits)

\* x + 1
RECURSIVE AddOne(_)
AddOne(x) ==
  IF x = <<>> THEN <<1>>
  ELSE IF x[Len(x)] + 1 < Base THEN [x EXCEPT ![Len(x)] = @ + 1]
  ELSE AddOne(SubSeq(x, 1, Len(x) - 1)) \o <<0>>

\* x * k + carry for a small integer k
RECURSIVE Times(_, _, _)
Times(x, k, carry) ==
  IF x = <<>> THEN (IF carry = 0 THEN <<>> ELSE <<carry>>)
  ELSE LET v == x[Len(x)] * k + carry
       IN  Times(SubSeq(x, 1, Len(x) - 1), k, v \div Base) \o <<v % Base>>

\* the last n limbs of x
Low(x, n) == SubSeq(x, Len(x) - n + 1, Len(x))

\* the limbs of a significand
SigLimbs == (Precision + LimbBits - 1) \div LimbBits

\* An exact result x (Precision bits or up to LimbBits - 1 more, x[1] > 0;
\* sticky: a non-zero remainder lies below the last bit) rounded to
\* Precision bits, ties to even; drop is the number of low bits given up.
RoundToNearestEven(x, sticky) ==
  LET dr   == Bits(x) - Precision
      low  == x[Len(x)] % 2^dr
      half == IF dr = 0 THEN 1 ELSE 2^(dr - 1)
      kept == Low(ShiftRight(x, dr), SigLimbs)
      up   == \/ low > half
              \/ low = half /\ (sticky \/ kept[SigLimbs] % 2 = 1)
      r    == IF up THEN AddOne(kept) ELSE kept
  IN  IF Bits(r) > Precision
        THEN [m |-> ShiftRight(r, 1), drop |-> dr + 1]
        ELSE [m |-> r, drop |-> dr]

\* the least s with n < d * 2^s
RECURSIVE Shift(_, _)
Shift(n, d) == IF n < d THEN 0 ELSE 1 + Shift(n, 2 * d)

\* the least z with d <= 2 * n * 2^z
RECURSIVE LeadingZeros(_, _)
LeadingZeros(n, d) == IF 2 * n >= d THEN 0 ELSE 1 + LeadingZeros(2 * n, d)

\* long division of r by d (d / 2 <= r < d): the first Precision + 1 bits
\* of the binary fraction, as limbs, and the remainder
Quotient(r, d) ==
  LET q1 == (r * Base) \div d
      r1 == (r * Base) % d
      q2 == (r1 * Base) \div d
      r2 == (r1 * Base) % d
      q3 == (r2 * Base) \div d
      r3 == (r2 * Base) % d
  IN  [limbs |-> <<q1, q2, q3>>, rem |-> r3]

\* the binary64 quotient n / d of two small positive integers
Divide(n, d) ==
  LET s  == Shift(n, d)
      z  == LeadingZeros(n, d)
      q  == Quotient(n * 2^z, d * 2^s)
      rd == RoundToNearestEven(q.limbs, q.rem # 0)
  IN  [m |-> rd.m, exp |-> s - z - SigLimbs * LimbBits + rd.drop]

\* the binary64 product of x and a small integer k >= 1
Multiply(x, k) ==
  LET rd == RoundToNearestEven(Times(x.m, k, 0), FALSE)
  IN  [m |-> rd.m, exp |-> x.exp + rd.drop]

\* Math.round: the nearest integer, halves toward +Infinity
MathRound(x) ==
  IF x.exp >= 0 THEN ToInt(x.m) * 2^(x.exp)
  ELSE LET whole == ShiftRightBig(x.m, 0 - x.exp)
           halves == ShiftRightBig(x.m, 0 - x.exp - 1)
       IN  ToInt(whole) + (IF halves = <<>> THEN 0
                           ELSE halves[Len(halves)] % 2)

NoStats == [present |-> 0, absent |-> 0, late |-> 0, total |-> 0]

\* effectivePresent = present + late * 0.5 is exact; effectivePresent /
\* total is the quotient (2 * present + late) / (2 * total)
getAttendancePercentage(s) ==
  IF s.total = 0 THEN 0
  ELSE IF 2 * s.present + s.late = 0 THEN 0
  ELSE MathRound(Multiply(Divide(2 * s.present + s.late, 2 * s.total), 100))

\* the month's records of the student, counted by status
MonthCounts ==
  {c \in [present : 0..MaxRecords, absent : 0..MaxRecords,
          late : 0..MaxRecords] :
     c.present + c.absent + c.late <= MaxRecords}

PercentInit ==
  /\ monthRecords \in MonthCounts
  /\ stats = NoStats
  /\ percentage = 0
  /\ statsToast = "none"

\* fetchAttendance, the queries succeeding: the statistics are counted from
\* the records and the view renders the rate
FetchAttendanceDone ==
  /\ stats' = [present |-> monthRecords.present,
               absent  |-> monthRecords.absent,
               late    |-> monthRecords.late,
               total   |-> monthRecords.present + monthRecords.absent
                             + monthRecords.late]
  /\ percentage' = getAttendancePercentage(stats')
  /\ statsToast' = "none"
  /\ UNCHANGED monthRecords

\* fetchAttendance, a query failing: the statistics keep their values
FetchAttendanceFailed ==
  /\ statsToast' = "Error loading attendance"
  /\ percentage' = getAttendancePercentage(stats)
  /\ UNCHANGED <<monthRecords, stats>>

(***************************************************************************)
(* TeacherClasses.fetchClasses: the parent join (class_teachers), the      *)
(* primary rows (classes) and the per-row fan-out under Promise.all.       *)
(* TeacherCourses.fetchCourses, StudentClasses.fetchClasses and            *)
(* StudentAssignments.fetchAssignments have the same shape.                *)
(***************************************************************************)
\* the most loads one behaviour starts
MaxLoads == 2

\* the classes of the backend
TcClassIds == {1, 2}

\* backend data of a class: what the per-row queries return for its id
StudentCountOf(c) == c
AssignmentCountOf(c) == 3 - c
CourseIdsOf(c) == IF c = 1 THEN {7} ELSE {}

\* the queries one mapper awaits, in order; the courses query is issued
\* only when the class has course ids
RowQueries(c) ==
  IF CourseIdsOf(c) = {}
  THEN <<"class_students", "assignments", "course_classes">>
  ELSE <<"class_students", "assignments", "course_classes", "courses">>

\* what the awaited query of a mapper returns for the class
RowAnswer(c, q) ==
  CASE q = "class_students" -> StudentCountOf(c)
    [] q = "assignments"    -> AssignmentCountOf(c)
    [] q = "course_classes" -> CourseIdsOf(c)
    [] q = "courses"        -> CourseIdsOf(c)

\* the entry a mapper returns
RowEntry(c, got) ==
  [id |-> c, studentCount |-> got[1], assignmentCount |-> got[2],
   courses |-> IF Len(got) > 3 THEN got[4] ELSE {}]

\* the orders in which the backend may return the rows S
RowOrders(S) ==
  {p \in [1..Cardinality(S) -> S] : \A i, j \in DOMAIN p : p[i] = p[j] => i = j}

NoLoad == [pc |-> "idle", rows |-> <<>>, mappers |-> <<>>, order |-> <<>>,
           joined |-> 0 - 1, ok |-> FALSE, before |-> <<>>,
           q |-> [join |-> 0, primary |-> 0, secondary |-> 0],
           failed |-> FALSE, after |-> 0]

StartedLoad(before) ==
  [NoLoad EXCEPT !.pc = "join", !.before = before, !.q.join = 1]

\* faulty variant: the results are taken in the order the mappers finished
PromiseAll_CompletionOrder(results, order) ==
  [k \in 1..Len(order) |-> results[order[k]]]

\* Promise.all resolves to the results by position
PromiseAll(results, order) ==
  [k \in 1..Len(results) |-> results[k]]

FanInit ==
  /\ tcTeaches \in SUBSET TcClassIds
  /\ classesWithDetails = <<>>
  /\ tcIsLoading = TRUE
  /\ tcToasts = 0
  /\ tcLoad = StartedLoad(<<>>)
  /\ tcLoads = 1

\* the page is mounted again: state as constructed, fetchClasses starts
TcMount ==
  /\ tcLoad.pc = "done"
  /\ tcLoads < MaxLoads
  /\ tcLoads' = tcLoads + 1
  /\ classesWithDetails' = <<>>
  /\ tcIsLoading' = TRUE
  /\ tcToasts' = 0
  /\ tcLoad' = StartedLoad(<<>>)
  /\ UNCHANGED tcTeaches

\* the effect runs again on the mounted page (its dependencies changed)
\* while the backend holds the teacher's classes S
TcRerun(S) ==
  /\ tcLoad.pc = "done"
  /\ \A i \in DOMAIN tcLoad.mappers : tcLoad.mappers[i].pc \in {"done", "failed"}
  /\ tcLoads < MaxLoads
  /\ tcLoads' = tcLoads + 1
  /\ tcTeaches' = S
  /\ tcIsLoading' = TRUE
  /\ tcToasts' = 0
  /\ tcLoad' = StartedLoad(classesWithDetails)
  /\ UNCHANGED classesWithDetails

\* faulty variant: no early return on zero parent-join rows
TcJoinDone_NoEarlyReturn ==
  /\ tcLoad.pc = "join"
  /\ tcLoad' = [tcLoad EXCEPT !.pc = "primary",
                              !.joined = Cardinality(tcTeaches),
                              !.q.primary = 1]
  /\ UNCHANGED <<tcTeaches, classesWithDetails, tcIsLoading, tcToasts, tcLoads>>

\* the class_teachers query returns; with no class ids the view is set
\* empty and the load returns
TcJoinDone ==
  /\ tcLoad.pc = "join"
  /\ IF tcTeaches = {}
     THEN /\ classesWithDetails' = <<>>
          /\ tcIsLoading' = FALSE
          /\ tcLoad' = [tcLoad EXCEPT !.pc = "done", !.joined = 0,
                                      !.ok = TRUE]
     ELSE /\ tcLoad' = [tcLoad EXCEPT !.pc = "primary",
                                      !.joined = Cardinality(tcTeaches),
                                      !.q.primary = 1]
          /\ UNCHANGED <<classesWithDetails, tcIsLoading>>
  /\ UNCHANGED <<tcTeaches, tcToasts, tcLoads>>

\* catch and finally: one notification, loading ends
TcCaught ==
  /\ tcToasts' = tcToasts + 1
  /\ tcIsLoading' = FALSE

\* the class_teachers or the classes query fails
TcQueryFail ==
  /\ tcLoad.pc \in {"join", "primary"}
  /\ tcLoad' = [tcLoad EXCEPT !.pc = "done", !.failed = TRUE]
  /\ TcCaught
  /\ UNCHANGED <<tcTeaches, classesWithDetails, tcLoads>>

\* the classes query returns its rows in the backend's order; every mapper
\* starts and awaits its first query
TcPrimaryDone(rows) ==
  /\ tcLoad.pc = "primary"
  /\ IF rows = <<>>
     THEN /\ classesWithDetails' = <<>>
          /\ tcIsLoading' = FALSE
          /\ tcLoad' = [tcLoad EXCEPT !.pc = "done", !.ok = TRUE]
     ELSE /\ tcLoad' = [tcLoad EXCEPT
               !.pc = "fanout",
               !.rows = rows,
               !.mappers = [k \in 1..Len(rows) |->
                              [pc |-> "await", got |-> <<>>,
                               issued |-> <<RowQueries(rows[k])[1]>>]],
               !.q.secondary = Len(rows)]
          /\ UNCHANGED <<classesWithDetails, tcIsLoading>>
  /\ UNCHANGED <<tcTeaches, tcToasts, tcLoads>>

\* the awaited query of mapper i returns: the mapper awaits its next query
\* or returns its entry; when the last mapper returns, Promise.all resolves
\* and the view is set
TcMapperOk(i) ==
  /\ tcLoad.pc \in {"fanout", "done"}
  /\ i \in DOMAIN tcLoad.mappers
  /\ tcLoad.mappers[i].pc = "await"
  /\ LET c    == tcLoad.rows[i]
         qs   == RowQueries(c)
         m    == tcLoad.mappers[i]
         got  == Append(m.got, RowAnswer(c, qs[Len(m.got) + 1]))
         last == Len(got) = Len(qs)
         ms   == [tcLoad.mappers EXCEPT
                    ![i] = [pc |-> IF last THEN "done" ELSE "await",
                            got |-> got,
                            issued |-> IF last THEN m.issued
                                       ELSE Append(m.issued, qs[Len(got) + 1])]]
         ord  == IF last THEN Append(tcLoad.order, i) ELSE tcLoad.order
         all  == \A k \in DOMAIN ms : ms[k].pc = "done"
     IN  IF tcLoad.pc = "fanout" /\ all
         THEN /\ classesWithDetails' =
                   PromiseAll([k \in DOMAIN ms |->
                                 RowEntry(tcLoad.rows[k], ms[k].got)], ord)
              /\ tcIsLoading' = FALSE
              /\ tcLoad' = [tcLoad EXCEPT !.pc = "done", !.ok = TRUE,
                                          !.mappers = ms, !.order = ord]
         ELSE /\ tcLoad' = [tcLoad EXCEPT
                   !.mappers = ms, !.order = ord,
                   !.q.secondary = IF last THEN @ ELSE @ + 1,
                   !.after = IF ~last /\ tcLoad.failed THEN @ + 1 ELSE @]
              /\ UNCHANGED <<classesWithDetails, tcIsLoading>>
  /\ UNCHANGED <<tcTeaches, tcToasts, tcLoads>>

\* faulty variant: the mapper issues the failed query once more
TcMapperFail_Retry(i) ==
  /\ tcLoad.pc \in {"fanout", "done"}
  /\ i \in DOMAIN tcLoad.mappers
  /\ tcLoad.mappers[i].pc = "await"
  /\ Len(tcLoad.mappers[i].issued) <= Len(RowQueries(tcLoad.rows[i]))
  /\ LET m == tcLoad.mappers[i]
     IN  tcLoad' = [tcLoad EXCEPT
           !.mappers[i].issued = Append(@, m.issued[Len(m.issued)]),
           !.q.secondary = @ + 1]
  /\ UNCHANGED <<tcTeaches, classesWithDetails, tcIsLoading, tcToasts, tcLoads>>

\* the awaited query of mapper i fails: the mapper throws; the first
\* rejection rejects Promise.all, later ones are dropped
TcMapperFail(i) ==
  /\ tcLoad.pc \in {"fanout", "done"}
  /\ i \in DOMAIN tcLoad.mappers
  /\ tcLoad.mappers[i].pc = "await"
  /\ tcLoad' = [tcLoad EXCEPT !.pc = "done", !.mappers[i].pc = "failed",
                              !.failed = TRUE]
  /\ IF tcLoad.pc = "fanout"
     THEN TcCaught
     ELSE UNCHANGED <<tcToasts, tcIsLoading>>
  /\ UNCHANGED <<tcTeaches, classesWithDetails, tcLoads>>

(***************************************************************************)
(* TeacherAssignments.fetchData and TeacherDashboard.fetchDashboardData:   *)
(* one try block of queries awaited one after another, with setState calls *)
(* between them.  A part of the view holds the number of the load that set *)
(* it, 0 for the value it was constructed with.                            *)
(***************************************************************************)
\* the most loads one behaviour starts
MaxPageLoads == 2

Pages == {"TeacherAssignments", "TeacherDashboard"}

\* The queries of a load in order.  commits: the state the load sets when
\* the query has returned; join: the query returns the ids that the next
\* query filters by, and the next query is skipped when there are none.
Steps(page) ==
  IF page = "TeacherAssignments"
  THEN << [q |-> "assignments",     commits |-> "assignments", join |-> FALSE],
          [q |-> "course_teachers", commits |-> "none",        join |-> TRUE],
          [q |-> "courses",         commits |-> "courses",     join |-> FALSE],
          [q |-> "class_teachers",  commits |-> "none",        join |-> TRUE],
          [q |-> "classes",         commits |-> "classes",     join |-> FALSE] >>
  ELSE << [q |-> "class_teachers count",  commits |-> "none",  join |-> FALSE],
          [q |-> "course_teachers count", commits |-> "none",  join |-> FALSE],
          [q |-> "assignments count",     commits |-> "none",  join |-> FALSE],
          [q |-> "attendance_records count",
                                          commits |-> "stats", join |-> FALSE],
          [q |-> "assignments", commits |-> "upcomingAssignments",
                                                               join |-> FALSE],
          [q |-> "class_teachers",        commits |-> "none",  join |-> TRUE],
          [q |-> "classes",     commits |-> "recentClasses",   join |-> FALSE] >>

Parts(page) ==
  IF page = "TeacherAssignments"
  THEN {"assignments", "courses", "classes"}
  ELSE {"stats", "upcomingAssignments", "recentClasses"}

\* the view as constructed
FreshParts(page) == [x \in Parts(page) |-> 0]

\* the catch block of the page raises a notification
CatchToasts(page) == IF page = "TeacherAssignments" THEN 1 ELSE 0

StartedPageLoad(n, before) ==
  [pc |-> 1, n |-> n, failedAt |-> 0, before |-> before]

PageInit ==
  /\ pgPage \in Pages
  /\ pgView = FreshParts(pgPage)
  /\ pgIsLoading = TRUE
  /\ pgToasts = 0
  /\ pgRun = StartedPageLoad(1, pgView)
  /\ pgLoads = 1

\* a page is mounted: state as constructed, the load starts
PgMount(page) ==
  /\ pgRun.pc = 0
  /\ pgLoads < MaxPageLoads
  /\ pgLoads' = pgLoads + 1
  /\ pgPage' = page
  /\ pgView' = FreshParts(page)
  /\ pgIsLoading' = TRUE
  /\ pgToasts' = 0
  /\ pgRun' = StartedPageLoad(pgLoads', pgView')

\* the effect runs again on the mounted page (its dependencies changed)
PgRerun ==
  /\ pgRun.pc = 0
  /\ pgLoads < MaxPageLoads
  /\ pgLoads' = pgLoads + 1
  /\ pgIsLoading' = TRUE
  /\ pgToasts' = 0
  /\ pgRun' = StartedPageLoad(pgLoads', pgView)
  /\ UNCHANGED <<pgPage, pgView>>

\* the awaited query returns (nonEmpty: a join query returned ids): the
\* state it feeds is set and the next query is awaited; after the last one
\* finally ends the loading
PgStepOk(nonEmpty) ==
  /\ pgRun.pc > 0
  /\ LET steps == Steps(pgPage)
         st    == steps[pgRun.pc]
         next  == IF st.join /\ ~nonEmpty THEN pgRun.pc + 2 ELSE pgRun.pc + 1
     IN  /\ (~st.join) => nonEmpty
         /\ pgView' = IF st.commits = "none" THEN pgView
                      ELSE [pgView EXCEPT ![st.commits] = pgRun.n]
         /\ IF next > Len(steps)
            THEN /\ pgRun' = [pgRun EXCEPT !.pc = 0]
                 /\ pgIsLoading' = FALSE
            ELSE /\ pgRun' = [pgRun EXCEPT !.pc = next]
                 /\ UNCHANGED pgIsLoading
  /\ UNCHANGED <<pgPage, pgToasts, pgLoads>>

\* the awaited query fails: catch, finally
PgStepFail ==
  /\ pgRun.pc > 0
  /\ pgRun' = [pgRun EXCEPT !.pc = 0, !.failedAt = pgRun.pc]
  /\ pgToasts' = pgToasts + CatchToasts(pgPage)
  /\ pgIsLoading' = FALSE
  /\ UNCHANGED <<pgPage, pgView, pgLoads>>

(***************************************************************************)
(* The admin create actions: CourseManagement.handleCreateCourse and       *)
(* Users.handleCreateUser (ClassManagement.handleCreateClass validates and *)
(* inserts like Users).  A text is a sequence of characters.               *)
(***************************************************************************)
\* the most rows a table holds
MaxCreated == 2

\* the most create clicks, mounts and outside inserts of one behaviour
MaxCreates == 3

AdminPages == {"CourseManagement", "Users"}

\* what the admin may type into a field
Texts == {<<>>, <<" ">>, <<"a">>, <<" ", "a">>, <<"a", " ">>, <<"b">>}
ShortTexts == {<<>>, <<" ">>, <<"a">>}

\* faulty variant: the text is taken as typed
Trim_Identity(t) == t

\* String.prototype.trim: leading and trailing white space removed
RECURSIVE Trim(_)
Trim(t) ==
  IF t = <<>> THEN t
  ELSE IF t[1] = " " THEN Trim(Tail(t))
  ELSE IF t[Len(t)] = " " THEN Trim(SubSeq(t, 1, Len(t) - 1))
  ELSE t

EmptyForm(page) ==
  IF page = "CourseManagement"
  THEN [title |-> <<>>, description |-> <<>>]
  ELSE [email |-> <<>>, full_name |-> <<>>, password |-> <<>>]

NoRun == [pc |-> "idle", title |-> <<>>, description |-> <<>>]

\* history of the last create action: the form it read, the remote calls
\* it issued, the rows it stored, the rows the title lookup matched (-1
\* before it returns) and the notification it raised
NoOutcome(page) == [acted |-> FALSE, input |-> EmptyForm(page),
                    calls |-> <<>>, stored |-> 0, matches |-> 0 - 1,
                    toast |-> "none"]

CreateInit ==
  /\ cmPage \in AdminPages
  /\ cmTables = [p \in AdminPages |-> <<>>]
  /\ cmList = <<>>
  /\ cmFetching = TRUE
  /\ cmForm = EmptyForm(cmPage)
  /\ cmIsSubmitting = FALSE
  /\ cmToast = "none"
  /\ cmRun = NoRun
  /\ cmOut = NoOutcome(cmPage)
  /\ cmActs = 0

\* an admin page is mounted: state as constructed, its fetch starts
CmMount(page) ==
  /\ cmRun.pc = "idle"
  /\ cmActs < MaxCreates
  /\ cmActs' = cmActs + 1
  /\ cmPage' = page
  /\ cmList' = <<>>
  /\ cmFetching' = TRUE
  /\ cmForm' = EmptyForm(page)
  /\ cmIsSubmitting' = FALSE
  /\ cmToast' = "none"
  /\ cmRun' = NoRun
  /\ cmOut' = NoOutcome(page)
  /\ UNCHANGED cmTables

\* fetchCourses / fetchUsers returns
CmFetchReturn(ok) ==
  /\ cmFetching
  /\ cmFetching' = FALSE
  /\ IF ok
     THEN cmList' = cmTables[cmPage] /\ UNCHANGED cmToast
     ELSE cmToast' = "Failed to fetch" /\ UNCHANGED cmList
  /\ UNCHANGED <<cmPage, cmTables, cmForm, cmIsSubmitting, cmRun, cmOut,
                 cmActs>>

\* another session stores a course
ExternalCreateCourse(title) ==
  /\ cmActs < MaxCreates
  /\ cmActs' = cmActs + 1
  /\ Len(cmTables["CourseManagement"]) < MaxCreated
  /\ cmTables' = [cmTables EXCEPT !["CourseManagement"] =
                    Append(@, [title |-> title, description |-> <<"a">>])]
  /\ UNCHANGED <<cmPage, cmList, cmFetching, cmForm, cmIsSubmitting, cmToast,
                 cmRun, cmOut>>

\* the create action ends with a notification and no further step
CmEnds(toast) ==
  /\ cmToast' = toast
  /\ cmOut' = [cmOut EXCEPT !.toast = toast]
  /\ cmRun' = NoRun
  /\ cmIsSubmitting' = FALSE

\* handleCreateCourse with the form as typed, up to its first await
handleCreateCourse(title, description) ==
  /\ cmPage = "CourseManagement"
  /\ ~cmIsSubmitting
  /\ cmRun.pc = "idle"
  /\ cmActs < MaxCreates
  /\ cmActs' = cmActs + 1
  /\ cmForm' = [title |-> title, description |-> description]
  /\ IF Trim(title) = <<>>
     THEN /\ cmToast' = "Course title is required"
          /\ cmOut' = [acted |-> TRUE, input |-> cmForm', calls |-> <<>>,
                       stored |-> 0, matches |-> 0 - 1,
                       toast |-> cmToast']
          /\ UNCHANGED <<cmRun, cmIsSubmitting>>
     ELSE IF Trim(description) = <<>>
     THEN /\ cmToast' = "Course description is required"
          /\ cmOut' = [acted |-> TRUE, input |-> cmForm', calls |-> <<>>,
                       stored |-> 0, matches |-> 0 - 1,
                       toast |-> cmToast']
          /\ UNCHANGED <<cmRun, cmIsSubmitting>>
     ELSE /\ cmIsSubmitting' = TRUE
          /\ cmRun' = [pc |-> "check", title |-> Trim(title),
                       description |-> Trim(description)]
          /\ cmOut' = [acted |-> TRUE, input |-> cmForm', calls |-> <<"select">>,
                       stored |-> 0, matches |-> 0 - 1, toast |-> "none"]
          /\ UNCHANGED cmToast
  /\ UNCHANGED <<cmPage, cmTables, cmList, cmFetching>>

\* the rows of the courses table with the title
TitleRows(title) ==
  {k \in DOMAIN cmTables["CourseManagement"] :
     cmTables["CourseManagement"][k].title = title}

\* the title lookup returns: .single() gives the row when exactly one
\* matches and PGRST116 otherwise; another error is thrown
CheckReturn(ok) ==
  /\ cmRun.pc = "check"
  /\ IF ~ok
     THEN /\ CmEnds("Failed to create course")
          /\ UNCHANGED <<cmForm, cmFetching>>
     ELSE IF Cardinality(TitleRows(cmRun.title)) = 1
     THEN /\ cmToast' = "A course with this title already exists"
          /\ cmOut' = [cmOut EXCEPT !.toast = cmToast', !.matches = 1]
          /\ cmRun' = NoRun
          /\ cmIsSubmitting' = FALSE
          /\ UNCHANGED <<cmForm, cmFetching>>
     ELSE /\ cmRun' = [cmRun EXCEPT !.pc = "insert"]
          /\ cmOut' = [cmOut EXCEPT
                         !.calls = Append(@, "insert"),
                         !.matches = Cardinality(TitleRows(cmRun.title))]
          /\ UNCHANGED <<cmForm, cmFetching, cmToast, cmIsSubmitting>>
  /\ UNCHANGED <<cmPage, cmTables, cmList, cmActs>>

\* the insert returns: stored, rejected as a unique violation (23505), or
\* another error
InsertReturn(result) ==
  /\ cmRun.pc = "insert"
  /\ CASE result = "ok" ->
            /\ Len(cmTables["CourseManagement"]) < MaxCreated
            /\ cmTables' = [cmTables EXCEPT !["CourseManagement"] =
                 Append(@, [title |-> cmRun.title,
                            description |-> cmRun.description])]
            /\ cmToast' = "Course created successfully"
            /\ cmOut' = [cmOut EXCEPT !.toast = cmToast', !.stored = 1,
                                      !.calls = Append(@, "fetch")]
            /\ cmForm' = EmptyForm("CourseManagement")
            /\ cmFetching' = TRUE
            /\ cmRun' = NoRun
            /\ cmIsSubmitting' = FALSE
       [] result = "unique" ->
            /\ TitleRows(cmRun.title) # {}
            /\ CmEnds("A course with this title already exists")
            /\ UNCHANGED <<cmTables, cmForm, cmFetching>>
       [] result = "error" ->
            /\ CmEnds("Failed to create course")
            /\ UNCHANGED <<cmTables, cmForm, cmFetching>>
  /\ UNCHANGED <<cmPage, cmList, cmActs>>

\* handleCreateUser with the form as typed, up to its first await
handleCreateUser(email, full_name, password) ==
  /\ cmPage = "Users"
  /\ cmRun.pc = "idle"
  /\ cmActs < MaxCreates
  /\ cmActs' = cmActs + 1
  /\ cmForm' = [email |-> email, full_name |-> full_name,
                password |-> password]
  /\ IF Trim(email) = <<>> \/ Trim(full_name) = <<>> \/ password = <<>>
     THEN /\ cmToast' = "All fields are required"
          /\ cmOut' = [acted |-> TRUE, input |-> cmForm', calls |-> <<>>,
                       stored |-> 0, matches |-> 0 - 1,
                       toast |-> cmToast']
          /\ UNCHANGED cmRun
     ELSE /\ cmRun' = [pc |-> "signUp", title |-> email,
                       description |-> full_name]
          /\ cmOut' = [acted |-> TRUE, input |-> cmForm', calls |-> <<"signUp">>,
                       stored |-> 0, matches |-> 0 - 1, toast |-> "none"]
          /\ UNCHANGED cmToast
  /\ UNCHANGED <<cmPage, cmTables, cmList, cmFetching, cmIsSubmitting>>

\* auth.signUp returns
SignUpReturn(ok) ==
  /\ cmRun.pc = "signUp"
  /\ IF ok
     THEN /\ cmRun' = [cmRun EXCEPT !.pc = "profile"]
          /\ cmOut' = [cmOut EXCEPT !.calls = Append(@, "insert")]
          /\ UNCHANGED <<cmToast, cmIsSubmitting>>
     ELSE CmEnds("Failed to create user")
  /\ UNCHANGED <<cmPage, cmTables, cmList, cmFetching, cmForm, cmActs>>

\* the profiles insert returns
ProfileReturn(ok) ==
  /\ cmRun.pc = "profile"
  /\ IF ok
     THEN /\ Len(cmTables["Users"]) < MaxCreated
          /\ cmTables' = [cmTables EXCEPT !["Users"] =
               Append(@, [email |-> cmRun.title,
                          full_name |-> cmRun.description])]
          /\ cmToast' = "User created successfully"
          /\ cmOut' = [cmOut EXCEPT !.toast = cmToast', !.stored = 1,
                                    !.calls = Append(@, "fetch")]
          /\ cmForm' = EmptyForm("Users")
          /\ cmFetching' = TRUE
          /\ cmRun' = NoRun
          /\ UNCHANGED cmIsSubmitting
     ELSE /\ CmEnds("Failed to create user")
          /\ UNCHANGED <<cmTables, cmForm, cmFetching>>
  /\ UNCHANGED <<cmPage, cmList, cmActs>>

(***************************************************************************)
(* Accounts and profiles: the four create actions (Users.handleCreateUser, *)
(* UserRegistrationForm.onSubmit, TeacherManagement.handleCreateTeacher,   *)
(* StudentManagement.handleCreateStudent), each auth.signUp followed by an *)
(* insert into profiles; Users.handleDeleteUser; Settings.handleSave-      *)
(* Settings; sign-in and sign-out.  Forms are taken as valid here.         *)
(***************************************************************************)
\* the most accounts, the administrator's included
MaxUsers == 3

\* the most user actions of one behaviour
MaxUserActs == 3

UserIds == 1..MaxUsers

\* no row / no account under the id
Absent == "none"

\* the roles a create action can send: the role select of Users, the
\* z.enum of the registration form, the literals of the other two
RolesOf(handler) ==
  CASE handler = "handleCreateUser"    -> {"student", "teacher", "admin"}
    [] handler = "onSubmit"            -> {"student", "teacher"}
    [] handler = "handleCreateTeacher" -> {"teacher"}
    [] handler = "handleCreateStudent" -> {"student"}

\* the administrator who operates the pages
Administrator == [id |-> 1, role |-> "admin"]

UsersInit ==
  /\ accounts = [i \in UserIds |-> IF i = 1 THEN "admin" ELSE Absent]
  /\ profiles = [i \in UserIds |-> IF i = 1 THEN "admin" ELSE Absent]
  /\ usRuns = <<>>
  /\ usFirst = profiles
  /\ usDeleted = {}
  /\ usSettings = 0
  /\ usSession = Administrator
  /\ usToast = "none"
  /\ usActs = 0

\* the admin pages render their children for an admin identity only
AdminPageShown == usSession.role = "admin"

\* the id auth.signUp gives a new account
FreshId == 1 + Cardinality({i \in UserIds : accounts[i] # Absent})

\* a create action up to its first await: auth.signUp is called
signUpThenInsert(handler, role) ==
  /\ AdminPageShown
  /\ usActs < MaxUserActs
  /\ usActs' = usActs + 1
  /\ role \in RolesOf(handler)
  /\ usRuns' = Append(usRuns, [pc |-> "signUp", role |-> role, id |-> 0])
  /\ UNCHANGED <<accounts, profiles, usFirst, usDeleted, usSettings,
                 usSession, usToast>>

handleCreateUserAs(role) == signUpThenInsert("handleCreateUser", role)

onSubmit(role) == signUpThenInsert("onSubmit", role)

handleCreateTeacher == signUpThenInsert("handleCreateTeacher", "teacher")

handleCreateStudent == signUpThenInsert("handleCreateStudent", "student")

\* auth.signUp of run k returns: the account exists and the profile insert
\* is issued with its id, or authError is thrown
AuthSignUpReturn(k, ok) ==
  /\ k \in DOMAIN usRuns
  /\ usRuns[k].pc = "signUp"
  /\ IF ok
     THEN /\ FreshId \in UserIds
          /\ accounts' = [accounts EXCEPT ![FreshId] = usRuns[k].role]
          /\ usRuns' = [usRuns EXCEPT ![k].pc = "profile", ![k].id = FreshId]
          /\ UNCHANGED usToast
     ELSE /\ usRuns' = [usRuns EXCEPT ![k].pc = "failed"]
          /\ usToast' = "Failed to create user"
          /\ UNCHANGED accounts
  /\ UNCHANGED <<profiles, usFirst, usDeleted, usSettings, usSession, usActs>>

\* the profiles insert of run k returns: the row is stored with the id of
\* the account and the role of the form, or profileError is thrown; the
\* account stays
ProfilesInsertReturn(k, ok) ==
  /\ k \in DOMAIN usRuns
  /\ usRuns[k].pc = "profile"
  /\ IF ok
     THEN /\ profiles' = [profiles EXCEPT ![usRuns[k].id] = usRuns[k].role]
          /\ usFirst' = [usFirst EXCEPT ![usRuns[k].id] =
                           IF @ = Absent THEN usRuns[k].role ELSE @]
          /\ usRuns' = [usRuns EXCEPT ![k].pc = "done"]
          /\ usToast' = "User created successfully"
     ELSE /\ usRuns' = [usRuns EXCEPT ![k].pc = "failed"]
          /\ usToast' = "Failed to create user"
          /\ UNCHANGED <<profiles, usFirst>>
  /\ UNCHANGED <<accounts, usDeleted, usSettings, usSession, usActs>>

\* faulty variant: the user is not deleted but demoted to student
handleDeleteUser_Demote(userId, ok) ==
  /\ AdminPageShown
  /\ profiles[userId] # Absent
  /\ usActs < MaxUserActs
  /\ usActs' = usActs + 1
  /\ IF ok
     THEN /\ profiles' = [profiles EXCEPT ![userId] = "student"]
          /\ usDeleted' = usDeleted \cup {userId}
          /\ usToast' = "User deleted successfully"
     ELSE /\ usToast' = "Failed to delete user"
          /\ UNCHANGED <<profiles, usDeleted>>
  /\ UNCHANGED <<accounts, usRuns, usFirst, usSettings, usSession>>

\* handleDeleteUser with its delete awaited: the profile row of a listed
\* user is deleted (the account is not touched), or the error is shown
handleDeleteUser(userId, ok) ==
  /\ AdminPageShown
  /\ profiles[userId] # Absent
  /\ usActs < MaxUserActs
  /\ usActs' = usActs + 1
  /\ IF ok
     THEN /\ profiles' = [profiles EXCEPT ![userId] = Absent]
          /\ usDeleted' = usDeleted \cup {userId}
          /\ usToast' = "User deleted successfully"
     ELSE /\ usToast' = "Failed to delete user"
          /\ UNCHANGED <<profiles, usDeleted>>
  /\ UNCHANGED <<accounts, usRuns, usFirst, usSettings, usSession>>

\* handleSaveSettings with its upsert awaited: table settings only
handleSaveSettings(ok) ==
  /\ AdminPageShown
  /\ usActs < MaxUserActs
  /\ usActs' = usActs + 1
  /\ IF ok
     THEN /\ usSettings' = usSettings + 1
          /\ usToast' = "Settings saved successfully"
     ELSE /\ usToast' = "Failed to save settings"
          /\ UNCHANGED usSettings
  /\ UNCHANGED <<accounts, profiles, usRuns, usFirst, usDeleted, usSession>>

\* a user with a profile signs in: the identity carries the profile's role
UsersSignIn(i) ==
  /\ usSession = NoUser
  /\ accounts[i] # Absent
  /\ profiles[i] # Absent
  /\ usActs < MaxUserActs
  /\ usActs' = usActs + 1
  /\ usSession' = [id |-> i, role |-> profiles[i]]
  /\ UNCHANGED <<accounts, profiles, usRuns, usFirst, usDeleted, usSettings,
                 usToast>>

\* the signed-in user signs out
UsersSignOut ==
  /\ usSession # NoUser
  /\ usActs < MaxUserActs
  /\ usActs' = usActs + 1
  /\ usSession' = NoUser
  /\ UNCHANGED <<accounts, profiles, usRuns, usFirst, usDeleted, usSettings,
                 usToast>>

(***************************************************************************)
(* TeacherAssignments: the create form (formData, handleChange,            *)
(* handleSelectChange) and handleSubmit, over the courses and classes the  *)
(* page has loaded for the teacher.  An unselected select holds "" in the  *)
(* code and 0 here.                                                        *)
(***************************************************************************)
\* the most inserts one behaviour sends
MaxInserts == 2

TaCourseIds == {1, 2}
TaClassIds == {1, 2}

\* formData as constructed and as reset after a successful insert
EmptyFormData ==
  [title |-> "", course_id |-> 0, class_id |-> 0, due_date |-> "",
   total_marks |-> 100]

AssignInit ==
  /\ taUser \in {i \in Identities : i.role = "teacher"}
  /\ taCourses \in SUBSET TaCourseIds
  /\ taClasses \in SUBSET TaClassIds
  /\ formData = EmptyFormData
  /\ taSent = <<>>
  /\ taPending = {}
  /\ taAssignments = <<>>
  /\ taToast = "none"

\* a text input of the form changes
handleChange(name, value) ==
  /\ formData[name] # value
  /\ formData' = [formData EXCEPT ![name] = value]
  /\ UNCHANGED <<taUser, taCourses, taClasses, taSent, taPending,
                 taAssignments, taToast>>

\* an item of a select is chosen: the items are the loaded courses / classes
handleSelectChange(name, value) ==
  /\ value \in (IF name = "course_id" THEN taCourses ELSE taClasses)
  /\ formData[name] # value
  /\ formData' = [formData EXCEPT ![name] = value]
  /\ UNCHANGED <<taUser, taCourses, taClasses, taSent, taPending,
                 taAssignments, taToast>>

\* the row handleSubmit sends
newAssignment == [teacher_id |-> taUser.id] @@ formData

\* handleSubmit up to its await: the form's submit event fires only with
\* the required inputs (title, due_date, total_marks) filled; the selects
\* are not required; the insert is sent with formData as it is
handleSubmitAssignment ==
  /\ formData.title # ""
  /\ formData.due_date # ""
  /\ Len(taSent) < MaxInserts
  /\ taSent' = Append(taSent, newAssignment)
  /\ taPending' = taPending \cup {Len(taSent) + 1}
  /\ UNCHANGED <<taUser, taCourses, taClasses, formData, taAssignments,
                 taToast>>

\* the insert returns: the row is put first in the list and the form is
\* reset, or the error notification is shown
AssignmentInsertReturn(k, ok) ==
  /\ k \in taPending
  /\ taPending' = taPending \ {k}
  /\ IF ok
     THEN /\ taAssignments' = <<taSent[k]>> \o taAssignments
          /\ formData' = EmptyFormData
          /\ taToast' = "Assignment created"
     ELSE /\ taToast' = "Error creating assignment"
          /\ UNCHANGED <<taAssignments, formData>>
  /\ UNCHANGED <<taUser, taCourses, taClasses, taSent>>

(***************************************************************************)
(* TeacherDashboard.fetchDashboardData over the tables class_teachers and  *)
(* assignments: four count queries, setStats, then the upcoming            *)
(* assignments and the recent classes.                                     *)
(***************************************************************************)
\* the most rows of table assignments
MaxDashRows == 3

\* the tables the backend may hold
ClassTeacherRows == [teacher_id : 1..NumIds, class_id : TcClassIds]
AssignmentRows == [id : 1..MaxDashRows, teacher_id : 1..NumIds]

\* faulty variant: the count without the teacher filter
CountOf_NoFilter(rows, teacher) == Cardinality(rows)

\* select('*', {count: 'exact', head: true}).eq('teacher_id', teacher)
CountOf(rows, teacher) ==
  Cardinality({r \in rows : r.teacher_id = teacher})

\* stats as constructed
NoDashStats == [totalClasses |-> 0, totalCourses |-> 0,
                totalAssignments |-> 0, totalAttendanceToday |-> 0]

\* the queries of the load in the order they are awaited
DashQueries == <<"classCount", "courseCount", "assignmentCount",
                 "attendanceCount", "upcoming", "class_teachers", "classes">>

DashInit ==
  /\ dbClassTeachers \in SUBSET ClassTeacherRows
  /\ dbAssignments \in SUBSET AssignmentRows
  /\ \A r, q \in dbAssignments : r.id = q.id => r = q
  /\ dashUser \in {i \in Identities : i.role = "teacher"}
  /\ dashStats = NoDashStats
  /\ dashIsLoading = TRUE
  /\ dashRun = [pc |-> 1, counts |-> <<>>, ok |-> FALSE]

\* what the awaited count query answers
DashCount(q, other) ==
  CASE q = "classCount"      -> CountOf(dbClassTeachers, dashUser.id)
    [] q = "assignmentCount" -> CountOf(dbAssignments, dashUser.id)
    [] OTHER                 -> other

\* the awaited query returns without error; `other` is the count of a
\* table not held here (course_teachers, attendance_records)
DashQueryOk(other) ==
  /\ dashRun.pc \in DOMAIN DashQueries
  /\ LET q      == DashQueries[dashRun.pc]
         counts == Append(dashRun.counts, DashCount(q, other))
         noIds  == CountOf(dbClassTeachers, dashUser.id) = 0
     IN  CASE dashRun.pc < 4 ->
                /\ dashRun' = [dashRun EXCEPT !.pc = @ + 1, !.counts = counts]
                /\ UNCHANGED <<dashStats, dashIsLoading>>
           [] dashRun.pc = 4 ->
                /\ dashStats' = [totalClasses |-> counts[1],
                                 totalCourses |-> counts[2],
                                 totalAssignments |-> counts[3],
                                 totalAttendanceToday |-> counts[4]]
                /\ dashRun' = [dashRun EXCEPT !.pc = 5, !.counts = counts]
                /\ UNCHANGED dashIsLoading
           [] dashRun.pc = 5 ->
                /\ other = 0
                /\ dashRun' = [dashRun EXCEPT !.pc = 6]
                /\ UNCHANGED <<dashStats, dashIsLoading>>
           [] dashRun.pc = 6 /\ ~noIds ->
                /\ other = 0
                /\ dashRun' = [dashRun EXCEPT !.pc = 7]
                /\ UNCHANGED <<dashStats, dashIsLoading>>
           [] OTHER ->
                /\ other = 0
                /\ dashRun' = [dashRun EXCEPT !.pc = 0, !.ok = TRUE]
                /\ dashIsLoading' = FALSE
                /\ UNCHANGED dashStats
  /\ UNCHANGED <<dbClassTeachers, dbAssignments, dashUser>>

\* the awaited query returns an error: thrown, logged, loading ends
DashQueryFail ==
  /\ dashRun.pc \in DOMAIN DashQueries
  /\ dashRun' = [dashRun EXCEPT !.pc = 0]
  /\ dashIsLoading' = FALSE
  /\ UNCHANGED <<dbClassTeachers, dbAssignments, dashUser, dashStats>>

(***************************************************************************)
(* A guarded page and its data fetch: the page component holds the effect  *)
(* that fetches and returns its content wrapped in MainLayout, so the      *)
(* effect runs in the commit of the render in which the guard redirects.   *)
(***************************************************************************)
\* the most page mounts of one behaviour
MaxVisits == 2

GuardedPages == {"AdminDashboard", "Users", "TeacherDashboard"}

\* the requiredRole the page passes to MainLayout
PageRequires(page) ==
  IF page = "TeacherDashboard" THEN "teacher" ELSE "admin"

\* the effect's dependencies hold user
DependsOnUser(page) == page = "TeacherDashboard"

\* the effect of the page issues its queries: TeacherDashboard returns
\* early without an identity; fetchStats of AdminDashboard and fetchUsers
\* of Users have no condition
EffectFetches(page, u) ==
  IF page = "TeacherDashboard" THEN u # NoUser ELSE TRUE

\* the queries issued by the page's effect run under identity u
IssuedBy(page, u) ==
  IF EffectFetches(page, u) THEN {[page |-> page, user |-> u]} ELSE {}

PageGuardInit ==
  /\ pqSession \in Identities \cup {NoUser}
  /\ pqLoading = TRUE
  /\ pqUser = NoUser
  /\ pqPage = "none"
  /\ pqMounted = FALSE
  /\ pqOut = NoOut
  /\ pqIssued = {}
  /\ pqVisits = 0

\* the route of a guarded page is entered: the page renders, the guard
\* returns its outcome, the effects of the commit run, and a redirect
\* unmounts the page
PageMount(page) ==
  /\ pqVisits < MaxVisits
  /\ pqVisits' = pqVisits + 1
  /\ pqPage' = page
  /\ pqOut' = MainLayout(pqLoading, pqUser, PageRequires(page))
  /\ pqIssued' = pqIssued \cup IssuedBy(page, pqUser)
  /\ pqMounted' = (pqOut'.kind # "redirect")
  /\ UNCHANGED <<pqSession, pqLoading, pqUser>>

\* the session store finishes restoring: the mounted page renders again,
\* an effect that depends on user runs again when user changed
SessionRestored ==
  /\ pqLoading
  /\ pqLoading' = FALSE
  /\ pqUser' = pqSession
  /\ IF pqMounted
     THEN /\ pqOut' = MainLayout(FALSE, pqSession, PageRequires(pqPage))
          /\ pqIssued' = pqIssued \cup
               (IF DependsOnUser(pqPage) /\ pqSession # pqUser
                THEN IssuedBy(pqPage, pqSession) ELSE {})
          /\ pqMounted' = (pqOut'.kind # "redirect")
     ELSE UNCHANGED <<pqOut, pqIssued, pqMounted>>
  /\ UNCHANGED <<pqSession, pqPage, pqVisits>>

(***************************************************************************)
(* SpecTabs: StudentAssignments, the search filter and the three tabs      *)
(***************************************************************************)
\* assignments the student's list holds at most
MaxAssignments == 3

\* a null text column
NullText == <<"null">>

\* texts are sequences of characters
Titles == {<<"a">>, <<"B", "a">>}
Descriptions == {NullText, <<"b">>}
ClassName == <<"c">>
CourseName == <<"d">>
SearchTerms == {<<>>, <<"a">>, <<"B">>}

SubmissionStatus == {"pending", "submitted", "graded"}

\* String.prototype.toLowerCase
toLowerCase(s) ==
  [i \in DOMAIN s |-> CASE s[i] = "A" -> "a"
                        [] s[i] = "B" -> "b"
                        [] OTHER      -> s[i]]

\* String.prototype.includes
includes(s, t) ==
  \E i \in 0..(Len(s) - Len(t)) : SubSeq(s, i + 1, i + Len(t)) = t

\* what the load can give one assignment: its texts, and the submission
\* (undefined, or the student's row in one of the three statuses)
AssignmentDetails ==
  [title : Titles, description : Descriptions,
   status : SubmissionStatus \cup {"none"}]

\* the list of AssignmentWithDetails the load builds from what it was given;
\* an assignment's id is its primary key
AssignmentsOf(f) ==
  [i \in DOMAIN f |->
     [id |-> i, title |-> f[i].title, className |-> ClassName,
      courseName |-> CourseName, description |-> f[i].description,
      submission |-> IF f[i].status = "none" THEN NoSub
                     ELSE [id |-> i, status |-> f[i].status]]]

matchesSearch(assignment, term) ==
  LET searchLower == toLowerCase(term)
  IN  \/ includes(toLowerCase(assignment.title), searchLower)
      \/ includes(toLowerCase(assignment.className), searchLower)
      \/ includes(toLowerCase(assignment.courseName), searchLower)
      \/ /\ assignment.description # NullText
         /\ assignment.description # <<>>
         /\ includes(toLowerCase(assignment.description), searchLower)

filteredAssignments(list, term) ==
  LET keep(a) == matchesSearch(a, term) IN SelectSeq(list, keep)

isPending(a) == a.submission = NoSub \/ a.submission.status = "pending"

isSubmitted(a) == a.submission # NoSub /\ a.submission.status = "submitted"

\* faulty variant: the graded tab takes every submission that is not pending
isGraded_NotPending(a) ==
  a.submission # NoSub /\ a.submission.status # "pending"

isGraded(a) == a.submission # NoSub /\ a.submission.status = "graded"

\* one render: the filtered list and the lists of the three tabs
RenderTabs(list, term) ==
  LET filtered == filteredAssignments(list, term)
  IN  [filtered  |-> filtered,
       pending   |-> SelectSeq(filtered, isPending),
       submitted |-> SelectSeq(filtered, isSubmitted),
       graded    |-> SelectSeq(filtered, isGraded)]

TabsInit ==
  /\ \E n \in 0..MaxAssignments :
       \E f \in [1..n -> AssignmentDetails] :
         saAssignments = AssignmentsOf(f)
  /\ searchTerm = <<>>
  /\ saTabs = RenderTabs(saAssignments, searchTerm)

\* the search box's onChange
setSearchTerm(term) ==
  /\ term # searchTerm
  /\ searchTerm' = term
  /\ saTabs' = RenderTabs(saAssignments, term)
  /\ UNCHANGED saAssignments

\* handleSubmit's write returned row `data` (status 'submitted') for the
\* i-th assignment, whose row offered the Submit / Edit Submission button
SubmissionSaved(i) ==
  /\ i \in DOMAIN saAssignments
  /\ ~(saAssignments[i].submission # NoSub
       /\ saAssignments[i].submission.status = "graded")
  /\ saAssignments[i].submission # [id |-> i, status |-> "submitted"]
  /\ saAssignments' = [saAssignments EXCEPT
       ![i].submission = [id |-> i, status |-> "submitted"]]
  /\ saTabs' = RenderTabs(saAssignments', searchTerm)
  /\ UNCHANGED searchTerm

(***************************************************************************)
(* Properties of the guard (SpecGuard)                                     *)
(***************************************************************************)
ExpectedHome(role) ==
  CASE role = "admin"   -> "/admin"
    [] role = "teacher" -> "/teacher"
    [] role = "student" -> "/student"

\* C1: an identity of role R on a view requiring another role R' is
\* redirected to R's home route and the children are not rendered.
C1_WrongRoleRedirectsHome ==
  (/\ gOut # NoOut
   /\ ~gLoading
   /\ gUser \in Identities
   /\ gRequired \in Roles
   /\ gRequired # gUser.role)
  => gOut = [kind |-> "redirect", to |-> ExpectedHome(gUser.role)]

C1_Witness ==
  /\ ~gLoading
  /\ gUser.role = "teacher"
  /\ gRequired = "admin"
  /\ gOut = [kind |-> "redirect", to |-> "/teacher"]

\* C2: with no identity and loading over, the guard redirects to /login for
\* every requiredRole, unset included, and does not render the children.
C2_NoIdentityRedirectsToLogin ==
  (gOut # NoOut /\ ~gLoading /\ gUser = NoUser)
  => gOut = [kind |-> "redirect", to |-> "/login"]

C2_Witness ==
  /\ ~gLoading
  /\ gUser = NoUser
  /\ gRequired = Unset
  /\ gOut = [kind |-> "redirect", to |-> "/login"]

\* C3: while the session is loading the guard yields the placeholder for
\* every identity and every requiredRole: no redirect, no children.
C3_LoadingYieldsPlaceholder ==
  (gOut # NoOut /\ gLoading) => gOut = [kind |-> "placeholder", to |-> ""]

C3_Witness ==
  /\ gLoading
  /\ gUser \in Identities
  /\ gRequired \in Roles
  /\ gRequired # gUser.role
  /\ gOut = [kind |-> "placeholder", to |-> ""]

\* C4: every evaluation has exactly one outcome among placeholder,
\* redirect(target) and render, and with loading over, an identity present
\* and requiredRole unset or equal to the identity's role it is render.
C4_GuardOutcome ==
  gOut # NoOut =>
    /\ gOut.kind \in {"placeholder", "redirect", "render"}
    /\ (gOut.kind = "redirect") <=> (gOut.to # "")
    /\ (/\ ~gLoading
        /\ gUser \in Identities
        /\ (gRequired = Unset \/ gRequired = gUser.role))
       => gOut = [kind |-> "render", to |-> ""]

C4_Witness ==
  /\ ~gLoading
  /\ gUser \in Identities
  /\ gRequired = gUser.role
  /\ gOut = [kind |-> "render", to |-> ""]

(***************************************************************************)
(* Properties of the session flow (SpecSession)                            *)
(***************************************************************************)
\* C5: after signOut the identity is null, and until a later successful
\* signIn every guard evaluation with loading over redirects to /login and
\* no guarded view is left rendering its children.
C5_SignedOutStaysOut ==
  signedOut =>
    /\ user = NoUser
    /\ ~loading =>
         /\ \A rr \in Roles \cup {Unset} :
              MainLayout(loading, user, rr)
                = [kind |-> "redirect", to |-> "/login"]
         /\ ~Guarded(route)

C5_Witness ==
  /\ signedOut
  /\ event = "signOut"
  /\ ~loading
  /\ user = NoUser
  /\ route = "/login"
  /\ hops = <<[from |-> "/teacher/attendance", to |-> "/login"]>>

\* C27: redirects terminate: from every route, with restoration over and
\* an identity of one of the three roles, following the redirects of
\* Index, Login and the guard reaches a view that renders without
\* redirecting after at most two redirects; the three components send a
\* role to the same home route; no route is redirected from twice.
C27_RedirectsTerminate ==
  (~loading /\ user \in Identities) =>
    /\ Len(hops) <= 2
    /\ View(route, loading, user).kind # "redirect"
    /\ \A i \in DOMAIN hops : hops[i].to = ExpectedHome(user.role)
    /\ \A i, j \in DOMAIN hops : hops[i].from = hops[j].from => i = j
    /\ \A r \in Routes :
         LET hs == Follow(r, loading, user, MaxRedirects)
         IN  /\ Len(hs) <= 2
             /\ View(Landing(r, hs), loading, user).kind # "redirect"
             /\ \A i \in DOMAIN hs : hs[i].to = ExpectedHome(user.role)

\* a teacher who went to an admin page was sent to the teacher home, which
\* renders
C27_Witness ==
  /\ ~loading
  /\ user \in Identities
  /\ user.role = "teacher"
  /\ hops = <<[from |-> "/admin/users", to |-> "/teacher"]>>
  /\ route = "/teacher"
  /\ event = "goto"

\* C6: a failing signIn leaves the identity and the route as they were; on
\* the mounted login form it sets the inline error, resets isLoading and
\* the identity is still null; Login redirects only with an identity.
C6_FailedSignIn ==
  /\ [][event' = "signInFail" =>
          /\ user' = user
          /\ route' = route
          /\ hops' = hops
          /\ (\E c \in signInCalls \ signInCalls' : c.mounted) =>
               /\ loginError' # NoError
               /\ loginIsLoading' = FALSE
               /\ user' = NoUser
               /\ route' = "/login"]_vars
  /\ [](/\ Login(user).kind = "redirect" => user # NoUser
        /\ \A i \in 1..Len(hops) :
             hops[i].from = "/login" => user # NoUser)

C6_Witness ==
  /\ event = "signInFail"
  /\ loginError # NoError
  /\ ~loginIsLoading
  /\ user = NoUser
  /\ route = "/login"

(***************************************************************************)
(* Properties of the submission upsert (SpecSubmit)                        *)
(***************************************************************************)
\* C7: the table holds at most one submission per (assignment, student)
\* pair in every reachable state: the first submit inserts, every later
\* submit for the pair updates.
C7_OneSubmissionPerPair ==
  \A a \in Assignments : Cardinality(RowsOf(subRows, a, StudentId)) <= 1

StatusRank(status) ==
  CASE status = "none"      -> 0
    [] status = "pending"   -> 1
    [] status = "submitted" -> 2
    [] status = "graded"    -> 3

\* C9: the status of a stored submission only moves forward along
\* pending -> submitted -> graded; no submit action takes a graded
\* submission back to submitted.
C9_StatusOnlyMovesForward ==
  [][\A id \in DOMAIN subRows :
       StatusRank(subRows'[id].status) >= StatusRank(subRows[id].status)]_vars

(***************************************************************************)
(* Properties of the attendance batch save (SpecAttendance)                *)
(***************************************************************************)
\* C8: the table holds at most one attendance record per (student, class,
\* date) in every reachable state, also after two saves of the same roster
\* without a reload in between.
C8_OneRecordPerKey ==
  \A i, j \in DOMAIN attRows :
    (/\ attRows[i].student_id = attRows[j].student_id
     /\ attRows[i].class_id = attRows[j].class_id
     /\ attRows[i].date = attRows[j].date) => i = j

\* C10: a batch over a roster of N students issues exactly N write calls,
\* the k-th for the k-th student: an update by record id when the student
\* has a record, an insert when not.
C10_OneWritePerStudent ==
  /\ save.pc \in {"issue", "await"} =>
       /\ save.n = Len(save.roster)
       /\ save.calls = Len(save.writes)
       /\ save.calls = (IF save.pc = "await" THEN save.i ELSE save.i - 1)
       /\ save.calls <= save.n
       /\ \A k \in 1..Len(save.writes) :
            LET w == save.writes[k]
                st == save.roster[k]
            IN  /\ w.student = st.id
                /\ st.attendanceRecordId # 0 =>
                     w.kind = "update" /\ w.id = st.attendanceRecordId
                /\ st.attendanceRecordId = 0 => w.kind = "insert"
  /\ save.pc = "done" => save.calls = save.n /\ save.n > 0

C10_Witness ==
  /\ save.pc = "issue"
  /\ save.n = 2
  /\ save.i = 3
  /\ save.writes[1].kind = "update"
  /\ save.writes[2].kind = "insert"

\* C15: when a per-student write of saveAttendance fails at the backend,
\* the save ends with the error notification and without the
\* 'Attendance saved' notification.
C15_FailedWriteIsSurfaced ==
  [][(save.pc = "issue" /\ save'.pc = "done" /\ save.failedAt # 0)
       => attToast' = "saveError"]_vars

\* the writes of the batch issued and not yet returned
InFlight == Len(save.writes) - Len(save.stored)

\* C16: the batch is not transactional: when a write of the batch fails,
\* the rows its earlier writes stored stay as written; a save on the same
\* class and date afterwards whose writes all succeed leaves every student
\* of the roster with a stored record.
C16_NoRollbackAndResave ==
  /\ [](save.pc \in {"issue", "await"} =>
          \A k \in DOMAIN save.stored :
            save.stored[k] # 0 =>
              /\ save.stored[k] \in DOMAIN attRows
              /\ attRows[save.stored[k]].student_id = save.roster[k].id
              /\ attRows[save.stored[k]].status
                   = save.roster[k].attendanceStatus)
  /\ [][(save.pc = "issue" /\ save'.pc = "done" /\ save.failedAt = 0)
         => \A k \in DOMAIN save.roster :
              \E id \in DOMAIN attRows' :
                /\ attRows'[id].student_id = save.roster[k].id
                /\ attRows'[id].status = save.roster[k].attendanceStatus]_vars

\* a batch of two whose second write failed, saved again with success
C16_Witness ==
  /\ save.pc = "done"
  /\ save.n = 2
  /\ save.failedAt = 0
  /\ save.prevFailedAt = 2
  /\ Len(attRows) >= 2

\* C17: the writes of one batch are issued one after another in roster
\* order: at most one is in flight, and the next is issued only when the
\* one before it has returned.
C17_WritesAreSequential ==
  save.pc \in {"issue", "await"} =>
    /\ InFlight \in {0, 1}
    /\ save.pc = "issue" => InFlight = 0
    /\ \A k \in DOMAIN save.writes : save.writes[k].student = save.roster[k].id

\* the second write of a batch in flight, the first returned
C17_Witness ==
  /\ save.pc = "await"
  /\ Len(save.writes) = 2
  /\ Len(save.stored) = 1

\* C25: for every interleaving of selection changes with the completions
\* of the fetches they start, every update a later saveAttendance issues
\* targets an attendance record whose class and date are the class and
\* date selected at the time of the save.
C25_SaveUpdatesSelectedClassAndDate ==
  \A k \in DOMAIN save.writes :
    save.writes[k].kind = "update" =>
      /\ attRows[save.writes[k].id].class_id = save.class
      /\ attRows[save.writes[k].id].date = save.date

\* C26: the loading flag is true whenever a fetchClasses or a
\* fetchStudents request is in flight, for every interleaving of the two
\* fetches' completions.
C26_LoadingWhileFetching ==
  fetches # {} => isLoading

\* C19: after every successful mutation the page fetches its collection
\* from the backend again.
C19_RefetchAfterMutation ==
  [][(save.pc = "issue" /\ save'.pc = "done" /\ save.failedAt = 0)
       => \E f \in fetches' : f \notin fetches]_vars

(***************************************************************************)
(* Properties of the attendance rate (SpecPercent)                         *)
(***************************************************************************)
\* round(100 * (present + 0.5 * late) / total), halves rounded up, in exact
\* arithmetic
ExactPercentage(s) ==
  (100 * (2 * s.present + s.late) + s.total) \div (2 * s.total)

\* C11: the rate shown for (present, late, total) is
\* round(100 * (present + 0.5 * late) / total) with halves rounded up when
\* total > 0, and 0 when total = 0.
C11_PercentageIsRoundedHalfUp ==
  percentage = IF stats.total = 0 THEN 0 ELSE ExactPercentage(stats)

(***************************************************************************)
(* Properties of the fan-out view load (SpecFanOut)                        *)
(***************************************************************************)
\* C12: when the parent-join query returns zero rows, the load sets an
\* empty view model, ends with the loading flag false and issues neither
\* the primary-row query nor any per-row query.
C12_ZeroJoinRowsLoadsEmpty ==
  tcLoad.joined = 0 =>
    /\ tcLoad.pc = "done"
    /\ classesWithDetails = <<>>
    /\ ~tcIsLoading
    /\ tcToasts = 0
    /\ tcLoad.q.primary = 0
    /\ tcLoad.q.secondary = 0

\* a load on the mounted page that found no join rows where the view had
\* shown classes before
C12_Witness ==
  /\ tcLoad.joined = 0
  /\ tcLoad.pc = "done"
  /\ tcLoad.before # <<>>
  /\ classesWithDetails = <<>>

\* C18: for every completion order of the sibling fetches, the view model
\* has one entry per primary row, in the order of the primary rows, each
\* carrying the data fetched for its own row id.
C18_FanOutMergedByRow ==
  (tcLoad.pc = "done" /\ tcLoad.ok /\ tcLoad.joined > 0) =>
    /\ Len(classesWithDetails) = Len(tcLoad.rows)
    /\ \A k \in DOMAIN tcLoad.rows :
         classesWithDetails[k] =
           [id |-> tcLoad.rows[k],
            studentCount |-> StudentCountOf(tcLoad.rows[k]),
            assignmentCount |-> AssignmentCountOf(tcLoad.rows[k]),
            courses |-> CourseIdsOf(tcLoad.rows[k])]

\* the second row's mapper finished before the first row's
C18_Witness ==
  /\ tcLoad.pc = "done"
  /\ tcLoad.ok
  /\ Len(tcLoad.rows) = 2
  /\ tcLoad.order = <<2, 1>>
  /\ Len(classesWithDetails) = 2

\* no query name occurs twice in the sequence
IssuedOnce(issued) ==
  \A a, b \in DOMAIN issued : issued[a] = issued[b] => a = b

C13_LoadIsAllOrNothing ==
  pgRun.failedAt # 0 => pgView = pgRun.before

\* C14: a view load in which a query fails raises exactly one user-facing
\* error notification.
C14_OneNotificationPerFailedLoad ==
  (pgRun.pc = 0 /\ pgRun.failedAt # 0) => pgToasts = 1

(***************************************************************************)
(* Properties of the admin create actions (SpecCreate)                     *)
(***************************************************************************)
\* nothing but white space
IsBlank(t) == \A k \in DOMAIN t : t[k] = " "

DuplicateTitle == "A course with this title already exists"

C22_RoleIsImmutable ==
  /\ [](\A i \in UserIds : profiles[i] # Absent => profiles[i] = usFirst[i])
  /\ [][\A i \in UserIds :
          (profiles[i] # Absent /\ profiles'[i] # Absent)
            => profiles'[i] = profiles[i]]_vars

\* a teacher was registered, another user's profile was deleted, the
\* settings were saved, and the teacher's profile still holds the role
C22_Witness ==
  /\ \E i \in UserIds : profiles[i] = "teacher" /\ usFirst[i] = "teacher"
  /\ usDeleted # {}
  /\ usSettings > 0

\* every create action has returned
CreatesSettled ==
  \A k \in DOMAIN usRuns : usRuns[k].pc \in {"done", "failed"}

\* C29: after a create action, whether it succeeded or failed at either of
\* its two steps, every account created by the application has a profile
\* row with the same id and role (profiles deleted by handleDeleteUser
\* aside).
C29_AccountsHaveProfiles ==
  CreatesSettled =>
    \A i \in UserIds :
      (accounts[i] # Absent /\ i \notin usDeleted) => profiles[i] = accounts[i]

(***************************************************************************)
(* Properties of the teacher's create form (SpecAssign)                    *)
(***************************************************************************)
\* C23: every assignment handleSubmit sends for insertion has teacher_id
\* equal to the current identity's id and references one class and one
\* course, both among the classes and courses loaded for the teacher; no
\* insert is sent while the class or the course is unselected.
C23_InsertHasTeacherClassCourse ==
  \A k \in DOMAIN taSent :
    /\ taSent[k].teacher_id = taUser.id
    /\ taSent[k].course_id \in taCourses
    /\ taSent[k].class_id \in taClasses

\* the part of C23 about the teacher: every insert sent carries the id of
\* the current identity
TeacherIdIsCurrentUser ==
  \A k \in DOMAIN taSent : taSent[k].teacher_id = taUser.id

(***************************************************************************)
(* Properties of the teacher dashboard (SpecDash)                          *)
(***************************************************************************)
\* C24: after a successful dashboard load, totalClasses is the number of
\* class_teachers rows of the current teacher and totalAssignments is the
\* number of assignments whose teacher is the current teacher, for every
\* number of rows including zero.
C24_DashboardCounts ==
  (dashRun.pc = 0 /\ dashRun.ok) =>
    /\ dashStats.totalClasses =
         Cardinality({r \in dbClassTeachers : r.teacher_id = dashUser.id})
    /\ dashStats.totalAssignments =
         Cardinality({r \in dbAssignments : r.teacher_id = dashUser.id})

\* a teacher with 2 classes and 3 assignments, beside another teacher's
\* class, sees 2 and 3
C24_Witness ==
  /\ dashRun.pc = 0
  /\ dashRun.ok
  /\ Cardinality({r \in dbClassTeachers : r.teacher_id = dashUser.id}) = 2
  /\ Cardinality({r \in dbAssignments : r.teacher_id = dashUser.id}) = 3
  /\ Cardinality(dbClassTeachers) = 3
  /\ dashStats.totalClasses = 2
  /\ dashStats.totalAssignments = 3

\* a teacher with no class and no assignment sees 0 and 0
DashZeroRows ==
  /\ dashRun.pc = 0
  /\ dashRun.ok
  /\ dashRun.counts[1] = 0
  /\ dashRun.counts[3] = 0
  /\ dashStats.totalClasses = 0

(***************************************************************************)
(* Properties of the guarded pages' fetches (SpecPageGuard)                *)
(***************************************************************************)
\* C28: a page whose guard requires role R' issues no remote query while
\* the session has no identity or an identity of another role.
C28_NoQueryUnderWrongRole ==
  \A q \in pqIssued :
    /\ q.user # NoUser
    /\ q.user.role = PageRequires(q.page)

(***************************************************************************)
(* Properties of the student assignment tabs                               *)
(***************************************************************************)
TabNames == {"pending", "submitted", "graded"}

\* the tab the status of an assignment's submission calls for
TabFor(a) ==
  IF a.submission = NoSub \/ a.submission.status = "pending" THEN "pending"
  ELSE a.submission.status

InTab(tab, a) == \E j \in DOMAIN saTabs[tab] : saTabs[tab][j] = a

\* C30: the pending, submitted and graded tabs partition the filtered
\* assignment list: every filtered assignment is in exactly one tab (no
\* submission or pending -> pending, submitted -> submitted, graded ->
\* graded), and the three tab counts sum to the length of the filtered list
C30_TabsPartitionFiltered ==
  /\ saTabs.filtered = filteredAssignments(saAssignments, searchTerm)
  /\ Len(saTabs.pending) + Len(saTabs.submitted) + Len(saTabs.graded)
       = Len(saTabs.filtered)
  /\ \A i \in DOMAIN saTabs.filtered :
       LET a == saTabs.filtered[i]
       IN  /\ {tab \in TabNames : InTab(tab, a)} = {TabFor(a)}
           /\ Cardinality({j \in DOMAIN saTabs[TabFor(a)] :
                             saTabs[TabFor(a)][j] = a}) = 1

\* a search that hides part of the list, with rows left in two tabs, one of
\* them there without a submission and one submitted
C30_Witness ==
  /\ searchTerm # <<>>
  /\ Len(saTabs.filtered) < Len(saAssignments)
  /\ Len(saTabs.filtered) >= 2
  /\ \E j \in DOMAIN saTabs.pending : saTabs.pending[j].submission = NoSub
  /\ Len(saTabs.submitted) > 0

(***************************************************************************)
(* Specifications                                                          *)
(***************************************************************************)
\* the guard subsystem at rest
GuardIdle ==
  /\ gLoading = FALSE
  /\ gUser = NoUser
  /\ gRequired = Unset
  /\ gOut = NoOut

\* the session subsystem at rest
SessionIdle ==
  /\ loading = TRUE
  /\ user = NoUser
  /\ session = NoUser
  /\ route = "/"
  /\ hops = <<>>
  /\ loginIsLoading = FALSE
  /\ loginError = NoError
  /\ signInCalls = {}
  /\ signedOut = FALSE
  /\ event = "load"

\* the submission subsystem at rest
SubmitIdle == SubmitInit

\* the attendance subsystem at rest
AttIdle == AttInit /\ attRows = <<>>

\* the student attendance statistics at rest: no records
PctIdle ==
  /\ monthRecords = [present |-> 0, absent |-> 0, late |-> 0]
  /\ stats = NoStats
  /\ percentage = 0
  /\ statsToast = "none"

\* the first four subsystems at rest
CoreIdle == GuardIdle /\ SessionIdle /\ SubmitIdle /\ AttIdle

\* the teacher's classes view at rest: mounted, its load settled on no rows
FanIdle ==
  /\ tcTeaches = {}
  /\ classesWithDetails = <<>>
  /\ tcIsLoading = FALSE
  /\ tcToasts = 0
  /\ tcLoad = NoLoad
  /\ tcLoads = 0

\* the teacher's assignments page at rest: not mounted
PageIdle ==
  /\ pgPage = "TeacherAssignments"
  /\ pgView = FreshParts("TeacherAssignments")
  /\ pgIsLoading = FALSE
  /\ pgToasts = 0
  /\ pgRun = [pc |-> 0, n |-> 0, failedAt |-> 0, before |-> pgView]
  /\ pgLoads = 0

\* the admin pages at rest: the course page, its list loaded and empty
CreateIdle ==
  /\ cmPage = "CourseManagement"
  /\ cmTables = [p \in AdminPages |-> <<>>]
  /\ cmList = <<>>
  /\ cmFetching = FALSE
  /\ cmForm = EmptyForm("CourseManagement")
  /\ cmIsSubmitting = FALSE
  /\ cmToast = "none"
  /\ cmRun = NoRun
  /\ cmOut = NoOutcome("CourseManagement")
  /\ cmActs = 0

\* accounts and profiles at rest: the administrator only
UsersIdle == UsersInit

\* the teacher's create form at rest: nothing loaded, nothing typed
AssignIdle ==
  /\ taUser = [id |-> 1, role |-> "teacher"]
  /\ taCourses = {}
  /\ taClasses = {}
  /\ formData = EmptyFormData
  /\ taSent = <<>>
  /\ taPending = {}
  /\ taAssignments = <<>>
  /\ taToast = "none"

\* the teacher dashboard at rest: empty tables, nothing loaded
DashIdle ==
  /\ dbClassTeachers = {}
  /\ dbAssignments = {}
  /\ dashUser = [id |-> 1, role |-> "teacher"]
  /\ dashStats = NoDashStats
  /\ dashIsLoading = FALSE
  /\ dashRun = [pc |-> 0, counts |-> <<>>, ok |-> FALSE]

\* the guarded pages at rest: no session, nothing mounted
PqIdle == PageGuardInit /\ pqSession = NoUser

\* the subsystems added last, at rest
\* the student assignment tabs at rest: an empty list
TabsIdle ==
  /\ saAssignments = <<>>
  /\ searchTerm = <<>>
  /\ saTabs = RenderTabs(<<>>, <<>>)

LateIdle == UsersIdle /\ AssignIdle /\ DashIdle /\ PqIdle /\ TabsIdle

\* the later subsystems at rest
MidIdle == PctIdle /\ FanIdle /\ PageIdle /\ CreateIdle
MoreIdle == MidIdle /\ LateIdle

InitGuard == GuardInit /\ SessionIdle /\ SubmitIdle /\ AttIdle /\ MoreIdle

NextGuard ==
  \/ GuardEval /\ UNCHANGED <<sessionVars, submitVars, attVars, moreVars>>
  \/ GuardInputs /\ UNCHANGED <<sessionVars, submitVars, attVars, moreVars>>

SpecGuard == InitGuard /\ [][NextGuard]_vars

InitSession == SessionInit /\ GuardIdle /\ SubmitIdle /\ AttIdle /\ MoreIdle

NextSession ==
  \/ RestoreSession /\ UNCHANGED <<guardVars, submitVars, attVars, moreVars>>
  \/ \E r \in Routes : GoTo(r) /\ UNCHANGED <<guardVars, submitVars, attVars, moreVars>>
  \/ \E r \in Routes : Reload(r) /\ UNCHANGED <<guardVars, submitVars, attVars, moreVars>>
  \/ \E cred \in SessionIdentities \cup {BadCredentials} :
       HandleLogin(cred) /\ UNCHANGED <<guardVars, submitVars, attVars, moreVars>>
  \/ \E c \in signInCalls : SignInOk(c) /\ UNCHANGED <<guardVars, submitVars, attVars, moreVars>>
  \/ \E c \in signInCalls :
       SignInFail(c) /\ UNCHANGED <<guardVars, submitVars, attVars, moreVars>>
  \/ SignOut /\ UNCHANGED <<guardVars, submitVars, attVars, moreVars>>

SpecSession == InitSession /\ [][NextSession]_vars

InitSubmit == SubmitInit /\ GuardIdle /\ SessionIdle /\ AttIdle /\ MoreIdle

NextSubmit ==
  \/ \E t \in Tabs : Mount(t) /\ UNCHANGED <<guardVars, sessionVars, attVars, moreVars>>
  \/ \E t \in Tabs, a \in Assignments :
       FetchRow(t, a) /\ UNCHANGED <<guardVars, sessionVars, attVars, moreVars>>
  \/ \E t \in Tabs : FetchDone(t) /\ UNCHANGED <<guardVars, sessionVars, attVars, moreVars>>
  \/ \E t \in Tabs : FetchFail(t) /\ UNCHANGED <<guardVars, sessionVars, attVars, moreVars>>
  \/ \E t \in Tabs, a \in Assignments :
       openSubmissionDialog(t, a) /\ UNCHANGED <<guardVars, sessionVars, attVars, moreVars>>
  \/ \E t \in Tabs : CloseDialog(t) /\ UNCHANGED <<guardVars, sessionVars, attVars, moreVars>>
  \/ \E t \in Tabs : handleSubmit(t) /\ UNCHANGED <<guardVars, sessionVars, attVars, moreVars>>
  \/ \E t \in Tabs : UpdateOk(t) /\ UNCHANGED <<guardVars, sessionVars, attVars, moreVars>>
  \/ \E t \in Tabs : InsertOk(t) /\ UNCHANGED <<guardVars, sessionVars, attVars, moreVars>>
  \/ \E t \in Tabs : SubmitFail(t) /\ UNCHANGED <<guardVars, sessionVars, attVars, moreVars>>
  \/ \E id \in DOMAIN subRows :
       ExternalGrade(id) /\ UNCHANGED <<guardVars, sessionVars, attVars, moreVars>>
  \/ \E a \in Assignments :
       ExternalPending(a) /\ UNCHANGED <<guardVars, sessionVars, attVars, moreVars>>

SpecSubmit == InitSubmit /\ [][NextSubmit]_vars

InitAttendance == AttInit /\ GuardIdle /\ SessionIdle /\ SubmitIdle /\ MoreIdle

NextAttendance ==
  \/ AttMount /\ UNCHANGED <<guardVars, sessionVars, submitVars, moreVars>>
  \/ \E f \in fetches : FetchClassesDone(f) /\ UNCHANGED <<guardVars, sessionVars, submitVars, moreVars>>
  \/ \E f \in fetches : FetchStudentsRead(f) /\ UNCHANGED <<guardVars, sessionVars, submitVars, moreVars>>
  \/ \E f \in fetches : FetchStudentsDone(f) /\ UNCHANGED <<guardVars, sessionVars, submitVars, moreVars>>
  \/ \E f \in fetches : FetchFailed(f) /\ UNCHANGED <<guardVars, sessionVars, submitVars, moreVars>>
  \/ \E c \in ClassIds : SelectClass(c) /\ UNCHANGED <<guardVars, sessionVars, submitVars, moreVars>>
  \/ \E d \in Dates : SelectDate(d) /\ UNCHANGED <<guardVars, sessionVars, submitVars, moreVars>>
  \/ \E k \in DOMAIN students, status \in ClickedStatus :
       updateAttendance(k, status) /\ UNCHANGED <<guardVars, sessionVars, submitVars, moreVars>>
  \/ SaveStart /\ UNCHANGED <<guardVars, sessionVars, submitVars, moreVars>>
  \/ SaveIssue /\ UNCHANGED <<guardVars, sessionVars, submitVars, moreVars>>
  \/ SaveWriteOk /\ UNCHANGED <<guardVars, sessionVars, submitVars, moreVars>>
  \/ SaveWriteError /\ UNCHANGED <<guardVars, sessionVars, submitVars, moreVars>>
  \/ SaveFinish /\ UNCHANGED <<guardVars, sessionVars, submitVars, moreVars>>

SpecAttendance == InitAttendance /\ [][NextAttendance]_vars

InitPercent == PercentInit /\ CoreIdle /\ FanIdle /\ PageIdle /\ CreateIdle /\ LateIdle

NextPercent ==
  \/ FetchAttendanceDone /\ UNCHANGED exceptPct
  \/ FetchAttendanceFailed /\ UNCHANGED exceptPct

SpecPercent == InitPercent /\ [][NextPercent]_vars

InitFanOut == FanInit /\ CoreIdle /\ PctIdle /\ PageIdle /\ CreateIdle /\ LateIdle

NextFanOut ==
  \/ TcMount /\ UNCHANGED exceptFan
  \/ \E S \in SUBSET TcClassIds : TcRerun(S) /\ UNCHANGED exceptFan
  \/ TcJoinDone /\ UNCHANGED exceptFan
  \/ TcQueryFail /\ UNCHANGED exceptFan
  \/ \E rows \in RowOrders(tcTeaches) :
       TcPrimaryDone(rows) /\ UNCHANGED exceptFan
  \/ \E i \in DOMAIN tcLoad.mappers : TcMapperOk(i) /\ UNCHANGED exceptFan
  \/ \E i \in DOMAIN tcLoad.mappers : TcMapperFail(i) /\ UNCHANGED exceptFan

SpecFanOut == InitFanOut /\ [][NextFanOut]_vars

InitPageLoad == PageInit /\ CoreIdle /\ PctIdle /\ FanIdle /\ CreateIdle /\ LateIdle

NextPageLoad ==
  \/ \E page \in Pages : PgMount(page) /\ UNCHANGED exceptPage
  \/ PgRerun /\ UNCHANGED exceptPage
  \/ \E nonEmpty \in BOOLEAN : PgStepOk(nonEmpty) /\ UNCHANGED exceptPage
  \/ PgStepFail /\ UNCHANGED exceptPage

SpecPageLoad == InitPageLoad /\ [][NextPageLoad]_vars

InitCreate == CreateInit /\ CoreIdle /\ PctIdle /\ FanIdle /\ PageIdle /\ LateIdle

NextCreate ==
  \/ \E page \in AdminPages : CmMount(page) /\ UNCHANGED exceptCreate
  \/ \E ok \in BOOLEAN : CmFetchReturn(ok) /\ UNCHANGED exceptCreate
  \/ \E title \in {<<"a">>, <<"b">>} :
       ExternalCreateCourse(title) /\ UNCHANGED exceptCreate
  \/ \E title \in Texts, description \in ShortTexts :
       handleCreateCourse(title, description) /\ UNCHANGED exceptCreate
  \/ \E ok \in BOOLEAN : CheckReturn(ok) /\ UNCHANGED exceptCreate
  \/ \E result \in {"ok", "unique", "error"} :
       InsertReturn(result) /\ UNCHANGED exceptCreate
  \/ \E email \in ShortTexts, full_name \in ShortTexts,
        password \in ShortTexts :
       handleCreateUser(email, full_name, password) /\ UNCHANGED exceptCreate
  \/ \E ok \in BOOLEAN : SignUpReturn(ok) /\ UNCHANGED exceptCreate
  \/ \E ok \in BOOLEAN : ProfileReturn(ok) /\ UNCHANGED exceptCreate

SpecCreate == InitCreate /\ [][NextCreate]_vars

InitUsers ==
  UsersInit /\ CoreIdle /\ MidIdle /\ AssignIdle /\ DashIdle /\ PqIdle
            /\ TabsIdle

NextUsers ==
  \/ \E role \in RolesOf("handleCreateUser") :
       handleCreateUserAs(role) /\ UNCHANGED exceptUsers
  \/ \E role \in RolesOf("onSubmit") : onSubmit(role) /\ UNCHANGED exceptUsers
  \/ handleCreateTeacher /\ UNCHANGED exceptUsers
  \/ handleCreateStudent /\ UNCHANGED exceptUsers
  \/ \E k \in DOMAIN usRuns, ok \in BOOLEAN :
       AuthSignUpReturn(k, ok) /\ UNCHANGED exceptUsers
  \/ \E k \in DOMAIN usRuns, ok \in BOOLEAN :
       ProfilesInsertReturn(k, ok) /\ UNCHANGED exceptUsers
  \/ \E i \in UserIds, ok \in BOOLEAN :
       handleDeleteUser(i, ok) /\ UNCHANGED exceptUsers
  \/ \E ok \in BOOLEAN : handleSaveSettings(ok) /\ UNCHANGED exceptUsers
  \/ \E i \in UserIds : UsersSignIn(i) /\ UNCHANGED exceptUsers
  \/ UsersSignOut /\ UNCHANGED exceptUsers

SpecUsers == InitUsers /\ [][NextUsers]_vars

InitAssign ==
  AssignInit /\ CoreIdle /\ MidIdle /\ UsersIdle /\ DashIdle /\ PqIdle
             /\ TabsIdle

NextAssign ==
  \/ \E name \in {"title", "due_date"}, value \in {"", "x"} :
       handleChange(name, value) /\ UNCHANGED exceptAssign
  \/ \E name \in {"course_id", "class_id"}, value \in TaCourseIds \cup TaClassIds :
       handleSelectChange(name, value) /\ UNCHANGED exceptAssign
  \/ handleSubmitAssignment /\ UNCHANGED exceptAssign
  \/ \E k \in taPending, ok \in BOOLEAN :
       AssignmentInsertReturn(k, ok) /\ UNCHANGED exceptAssign

SpecAssign == InitAssign /\ [][NextAssign]_vars

InitDash ==
  DashInit /\ CoreIdle /\ MidIdle /\ UsersIdle /\ AssignIdle /\ PqIdle
           /\ TabsIdle

NextDash ==
  \/ \E other \in {0, 1} : DashQueryOk(other) /\ UNCHANGED exceptDash
  \/ DashQueryFail /\ UNCHANGED exceptDash

SpecDash == InitDash /\ [][NextDash]_vars

InitPageGuard ==
  PageGuardInit /\ CoreIdle /\ MidIdle /\ UsersIdle /\ AssignIdle /\ DashIdle
                /\ TabsIdle

NextPageGuard ==
  \/ \E page \in GuardedPages : PageMount(page) /\ UNCHANGED exceptPq
  \/ SessionRestored /\ UNCHANGED exceptPq

SpecPageGuard == InitPageGuard /\ [][NextPageGuard]_vars

InitTabs ==
  TabsInit /\ CoreIdle /\ MidIdle /\ UsersIdle /\ AssignIdle /\ DashIdle
           /\ PqIdle

NextTabs ==
  \/ \E term \in SearchTerms : setSearchTerm(term) /\ UNCHANGED exceptTabs
  \/ \E i \in 1..MaxAssignments : SubmissionSaved(i) /\ UNCHANGED exceptTabs

SpecTabs == InitTabs /\ [][NextTabs]_vars

====
